---- MODULE Spec2Model ----
(***************************************************************************)
(* Channel orchestration engine of servidor-stream:                        *)
(*   - channel registry        (internal/channel, channel.Manager)         *)
(*   - transcode supervisor     (package ffmpeg, ffmpeg.Manager)            *)
(*   - application layer        (internal/app, App) and the control         *)
(*     protocol handlers that drive both.                                  *)
(***************************************************************************)
EXTENDS Integers, Sequences, FiniteSets, TLC

VARIABLES
    channels,   \* channel.Manager.channels : id -> Channel
    created,    \* ids handed out by uuid.New() in Add, in order of creation
    lastCall,   \* the registry call (Add/Update/Remove) made by the last step, and its result
    processes,  \* ffmpeg.Manager.processes : channel id -> process handle
    procs,      \* every ffmpegProcess ever launched : handle -> record
    wk,         \* worker goroutines (request handlers, GUI calls, restart attempts)
    restarts,   \* channel id -> number of attemptRestart goroutines still in their backoff
    emitted,    \* the events handed to App.onFFmpegEvent by the last step
    files,      \* paths for which os.Stat succeeds
    config,     \* config.Config (the fields the engine reads)
    written,    \* stderr lines written so far by all the processes
    log,        \* the responses returned so far, in order (GUI calls included)
    clients,    \* websocket.Server.clients : client id -> Client (send queue, messageCount)
    conn,       \* every Client made by handleConnection : id -> what happened to its queue
    mon         \* App.monitorChannels: the channels of its snapshot still to be examined

vars == <<channels, created, lastCall, processes, procs, wk, restarts, emitted,
          files, config, written, log, clients, conn, mon>>

regVars == <<channels, created, lastCall>>
engineVars == <<processes, procs, wk, restarts, emitted, files, config, written, log,
                clients, conn, mon>>

(***************************************************************************)
(* Bounds                                                                  *)
(***************************************************************************)
MaxAdds == 3        \* channels ever created (SpecRegistry)
MaxChannels == 1    \* channels ever created by the GUI (engine specifications)
MaxClientChannels == 2  \* channels ever created, those of the clients included
MaxProcs == 3       \* transcoding processes ever launched
MaxRestarts == 2    \* attemptRestart goroutines pending per channel
MaxLines == 1       \* stderr lines written in a run
MaxRequests == 2    \* requests and GUI calls of a run (Spec, SpecRequests)
MaxConcurrentRequests == 3  \* requests of a run (SpecConcurrent)
MaxSessions == 2    \* processes ever launched by direct calls (SpecSupervisor)

(***************************************************************************)
(* Values                                                                  *)
(***************************************************************************)
StatusInactive == "inactive"
StatusActive == "active"
StatusError == "error"
StatusStarting == "starting"
StatusStopping == "stopping"

basePort == 9000

ErrNone == ""
ErrEmptyLabel == "la etiqueta no puede estar vacía"
ErrNameInUse == "el nombre de stream ya está en uso"
ErrSRTNameInUse == "el nombre de stream SRT ya está en uso"
ErrNotFound == "canal no encontrado"

Labels == {"A", "B"}
StreamNames == {"STREAM_A", "CAM"}
Intro == "/videos/intro.mp4"
Outro == "/videos/outro.mp4"
VideoPaths == {Intro, Outro}
MissingPath == "/does/not/exist.mp4"
UnknownID == "unknown"
RequestPaths == {"", MissingPath, Intro}
GuiLabels == {"A"}

Max(S) == CHOOSE x \in S : \A y \in S : y <= x

\* uuid.New().String(): a value no earlier call returned
NewID(n) == "id" \o ToString(n)

IDs == DOMAIN channels

(***************************************************************************)
(* Channel registry (channel.Manager)                                      *)
(***************************************************************************)
\* variant: the comparison of getNextSRTPort written with > instead of >=
getNextSRTPort_Strict(chs) ==
    LET ports == {chs[i].SRTPort : i \in DOMAIN chs}
        over == {p \in ports : p > basePort}
    IN  IF over = {} THEN basePort ELSE Max(over) + 1

\* variant: the port derived from the number of channels instead of the maximum
getNextSRTPort_Count(chs) == basePort + Cardinality(DOMAIN chs)

getNextSRTPort(chs) ==
    LET ports == {chs[i].SRTPort : i \in DOMAIN chs}
        over == {p \in ports : p >= basePort}
    IN  IF over = {} THEN basePort ELSE Max(over) + 1

\* variant: Add without the stream-name check
NameInUse_Off(chs, name) == FALSE

NameInUse(chs, name) == \E i \in DOMAIN chs : chs[i].SRTStreamName = name

NameInUseByOther(chs, channelID, name) ==
    \E i \in DOMAIN chs : i # channelID /\ chs[i].SRTStreamName = name

NewChannel(id, label, videoPath, name, port) ==
    [ID |-> id, Label |-> label, VideoPath |-> videoPath,
     SRTStreamName |-> name, SRTPort |-> port,
     Status |-> StatusInactive, CurrentFile |-> "",
     ErrorMessage |-> "", LastError |-> "", ErrorCount |-> 0]

\* Manager.Add: the error it returns and the registry it leaves
AddResult(chs, id, label, videoPath, srtStreamName) ==
    LET name == IF srtStreamName = "" THEN "STREAM_" \o label ELSE srtStreamName
    IN  IF label = "" THEN [err |-> ErrEmptyLabel, chs |-> chs, id |-> ""]
        ELSE IF NameInUse(chs, name) THEN [err |-> ErrNameInUse, chs |-> chs, id |-> ""]
        ELSE [err |-> ErrNone,
              chs |-> [i \in DOMAIN chs \cup {id} |->
                         IF i = id
                         THEN NewChannel(id, label, videoPath, name, getNextSRTPort(chs))
                         ELSE chs[i]],
              id |-> id]

\* Manager.Update
UpdateResult(chs, channelID, label, videoPath, srtStreamName) ==
    IF channelID \notin DOMAIN chs THEN [err |-> ErrNotFound, chs |-> chs]
    ELSE IF srtStreamName # chs[channelID].SRTStreamName
            /\ NameInUseByOther(chs, channelID, srtStreamName)
         THEN [err |-> ErrSRTNameInUse, chs |-> chs]
    ELSE [err |-> ErrNone,
          chs |-> [chs EXCEPT
                     ![channelID].Label = IF label # "" THEN label ELSE @,
                     ![channelID].VideoPath = IF videoPath # "" THEN videoPath ELSE @,
                     ![channelID].SRTStreamName =
                         IF srtStreamName # "" THEN srtStreamName ELSE @]]

\* Manager.Remove
RemoveResult(chs, channelID) ==
    IF channelID \notin DOMAIN chs THEN [err |-> ErrNotFound, chs |-> chs]
    ELSE [err |-> ErrNone, chs |-> [i \in DOMAIN chs \ {channelID} |-> chs[i]]]

\* Manager.SetStatus (a missing channel is an error the callers ignore)
SetStatus(chs, channelID, status) ==
    IF channelID \in DOMAIN chs THEN [chs EXCEPT ![channelID].Status = status] ELSE chs

\* variant: SetCurrentFile that stores nothing
SetCurrentFile_Nop(chs, channelID, filePath) == chs

\* Manager.SetCurrentFile
SetCurrentFile(chs, channelID, filePath) ==
    IF channelID \in DOMAIN chs THEN [chs EXCEPT ![channelID].CurrentFile = filePath] ELSE chs

\* Manager.SetError
SetError(chs, channelID, errorMessage) ==
    IF channelID \in DOMAIN chs
    THEN [chs EXCEPT ![channelID].Status = StatusError,
                     ![channelID].ErrorMessage = errorMessage,
                     ![channelID].LastError = errorMessage,
                     ![channelID].ErrorCount = @ + 1]
    ELSE chs

\* goroutines that handle requests: the read loops of two clients; in the
\* sequential specifications goroutine 1 also runs the GUI calls and the restarts
Workers == {1, 2}

IdleWorker == [pc |-> "idle", op |-> "none", ch |-> "", file |-> "", proc |-> 0,
               after |-> "", err |-> "", client |-> "", req |-> "", seq |-> 0,
               port |-> 0, name |-> "", enc |-> "", probed |-> FALSE,
               ids |-> {}, snapshot |-> {}, held |-> {}, steps |-> <<>>]

NoData == [channelId |-> "", streamName |-> "", srtPort |-> 0, filePath |-> ""]

NoCall == [op |-> "none", id |-> "", label |-> "", name |-> "", err |-> ErrNone, port |-> 0]

\* AddChannel (GUI): channelManager.Add(label, "", srtStreamName)
Add(label, videoPath, srtStreamName) ==
    LET id == NewID(Len(created) + 1)
        r == AddResult(channels, id, label, videoPath, srtStreamName)
    IN  /\ channels' = r.chs
        /\ created' = IF r.err = ErrNone THEN Append(created, id) ELSE created
        /\ lastCall' = [op |-> "Add", id |-> r.id, label |-> label,
                        name |-> srtStreamName, err |-> r.err,
                        port |-> IF r.err = ErrNone THEN r.chs[id].SRTPort ELSE 0]

\* UpdateChannel (GUI): channelManager.Update(channelID, label, "", srtStreamName)
Update(channelID, label, videoPath, srtStreamName) ==
    LET r == UpdateResult(channels, channelID, label, videoPath, srtStreamName)
    IN  /\ channels' = r.chs
        /\ created' = created
        /\ lastCall' = [op |-> "Update", id |-> channelID, label |-> label,
                        name |-> srtStreamName, err |-> r.err, port |-> 0]

\* Manager.Remove on a channel without a session
Remove(channelID) ==
    LET r == RemoveResult(channels, channelID)
    IN  /\ channels' = r.chs
        /\ created' = created
        /\ lastCall' = [op |-> "Remove", id |-> channelID, label |-> "",
                        name |-> "", err |-> r.err,
                        port |-> IF r.err = ErrNone THEN channels[channelID].SRTPort ELSE 0]

AddChannel ==
    /\ Len(created) < MaxAdds
    /\ \E label \in Labels \cup {""}, name \in StreamNames \cup {""} :
          Add(label, "", name)
    /\ UNCHANGED engineVars

UpdateChannel ==
    /\ \E id \in IDs \cup {UnknownID}, label \in Labels \cup {""},
          name \in StreamNames \cup {""} :
          Update(id, label, "", name)
    /\ UNCHANGED engineVars

RemoveIdle ==
    /\ \E id \in IDs \cup {UnknownID} : Remove(id)
    /\ UNCHANGED engineVars

(***************************************************************************)
(* Strings (strings.ToLower, strings.Contains)                             *)
(***************************************************************************)
UpperChars == "ABCDEFGHIJKLMNOPQRSTUVWXYZ"
LowerChars == "abcdefghijklmnopqrstuvwxyz"

LowerChar(c) ==
    IF \E i \in 1 .. 26 : SubSeq(UpperChars, i, i) = c
    THEN LET i == CHOOSE k \in 1 .. 26 : SubSeq(UpperChars, k, k) = c
         IN  SubSeq(LowerChars, i, i)
    ELSE c

RECURSIVE ToLower(_)
ToLower(s) ==
    IF s = "" THEN "" ELSE LowerChar(SubSeq(s, 1, 1)) \o ToLower(SubSeq(s, 2, Len(s)))

Contains(s, sub) ==
    \E i \in 1 .. (Len(s) - Len(sub) + 1) : SubSeq(s, i, i + Len(sub) - 1) = sub

MapPut(f, k, v) == [x \in DOMAIN f \cup {k} |-> IF x = k THEN v ELSE f[x]]
MapDel(f, k) == [x \in DOMAIN f \ {k} |-> f[x]]

(***************************************************************************)
(* Events (ffmpeg.Event) and what the transcoder can write and return      *)
(***************************************************************************)
EventStarted == "started"
EventStopped == "stopped"
EventError == "error"
EventProgress == "progress"
EventWarning == "warning"

Event(type, channelID, message) == [Type |-> type, ChannelID |-> channelID, Message |-> message]

\* err.Error() of cmd.Wait(): nil, a fatal exit, the exit code of a dropped SRT peer
ExitClean == ""
ExitFatal == "exit status 1"
ExitDisconnect == "exit status 0xfffffffb"
ExitErrors == {ExitClean, ExitFatal, ExitDisconnect}

\* lines of the transcoder's stderr
LineConnect == "SRT: Accepted connection"
LineFrame == "frame=  120 fps= 30 q=23.0"
LineFatal == "[libx264] Error initializing encoder"
LineDisconnect == "Error muxing a packet"
Lines == {LineConnect, LineFrame, LineFatal, LineDisconnect}

\* the lines the processes of the engine specifications write
WrittenLines == {LineFrame, LineFatal, LineDisconnect}

HardwareEncoders == {"h264_nvenc", "h264_qsv", "h264_amf"}

\* variant: the transport-disconnect test of onFFmpegEvent without the exit-code pattern
isSRTDisconnect_NoExitCode(message) ==
    \/ Contains(message, "I/O error")
    \/ Contains(message, "muxing a packet")

\* the isSRTDisconnect expression of App.onFFmpegEvent
isSRTDisconnect(message) ==
    \/ Contains(message, "I/O error")
    \/ Contains(message, "exit status 0xfffffffb")
    \/ Contains(message, "muxing a packet")

\* evaluated once per message
DisconnectTable == [m \in ExitErrors \cup Lines |-> isSRTDisconnect(m)]

Pending(rst, c) == IF c \in DOMAIN rst THEN rst[c] ELSE 0

\* go a.attemptRestart(channelID)
ScheduleRestart(rst, c) == MapPut(rst, c, Pending(rst, c) + 1)

\* variant: onFFmpegEvent that marks the channel of a Started event active
onFFmpegEvent_StartedActive(st, event) ==
    IF event.Type = EventStarted
    THEN [st EXCEPT !.chs = SetStatus(st.chs, event.ChannelID, StatusActive)]
    ELSE IF event.Type = EventStopped
    THEN [st EXCEPT !.chs = SetStatus(st.chs, event.ChannelID, StatusInactive)]
    ELSE IF event.Type = EventError
    THEN IF DisconnectTable[event.Message]
         THEN [st EXCEPT !.chs = SetStatus(st.chs, event.ChannelID, StatusInactive)]
         ELSE [chs |-> SetStatus(st.chs, event.ChannelID, StatusError),
               rst |-> IF config.AutoRestart
                       THEN ScheduleRestart(st.rst, event.ChannelID)
                       ELSE st.rst]
    ELSE st

\* App.onFFmpegEvent applied to the registry and the pending restart goroutines
onFFmpegEvent(st, event) ==
    IF event.Type = EventStopped
    THEN [st EXCEPT !.chs = SetStatus(st.chs, event.ChannelID, StatusInactive)]
    ELSE IF event.Type = EventError
    THEN IF DisconnectTable[event.Message]
         THEN [st EXCEPT !.chs = SetStatus(st.chs, event.ChannelID, StatusInactive)]
         ELSE [chs |-> SetStatus(st.chs, event.ChannelID, StatusError),
               rst |-> IF config.AutoRestart
                       THEN ScheduleRestart(st.rst, event.ChannelID)
                       ELSE st.rst]
    ELSE st

RECURSIVE HandleEvents(_, _)
HandleEvents(st, events) ==
    IF events = <<>> THEN st
    ELSE HandleEvents(onFFmpegEvent(st, Head(events)), Tail(events))

\* Manager.emitEvent for the events of one step, in order
Emit(events) ==
    LET st == HandleEvents([chs |-> channels, rst |-> restarts], events)
    IN  /\ \A c \in DOMAIN st.rst : st.rst[c] <= MaxRestarts
        /\ channels' = st.chs
        /\ restarts' = st.rst
        /\ emitted' = events

\* the events parseProgress emits for one scanned line; due: the 30 s progress
\* interval has elapsed
ParseLine(channelID, line, due) ==
    LET lineLower == ToLower(line)
        connect == IF \/ Contains(lineLower, "srt: accepted connection")
                      \/ Contains(lineLower, "srt: listener accepted")
                   THEN <<Event(EventProgress, channelID, "Cliente SRT conectado - streaming activo")>>
                   ELSE <<>>
        frame == IF Contains(line, "frame=") /\ Contains(line, "fps=") /\ due
                 THEN <<Event(EventProgress, channelID, "Streaming activo")>>
                 ELSE <<>>
        error == IF Contains(lineLower, "error") /\ ~Contains(lineLower, "no error")
                 THEN <<Event(EventError, channelID, line)>>
                 ELSE <<>>
    IN  connect \o frame \o error

ParseTable == [l \in Lines |-> [due \in BOOLEAN |-> ParseLine("", l, due)]]

\* ParseLine from the table, for the session's channel
ParsedEvents(channelID, line, due) ==
    [k \in 1 .. Len(ParseTable[line][due]) |->
        [ParseTable[line][due][k] EXCEPT !.ChannelID = channelID]]

(***************************************************************************)
(* Transcode supervisor (ffmpeg.Manager)                                   *)
(***************************************************************************)
ErrProcessExists(channelID) == "ya existe un proceso activo para el canal " \o channelID
ErrInputNotFound(inputPath) == "archivo de entrada no encontrado: " \o inputPath
\* cmd.Start() failed; the operating system's message is left out
ErrLaunch == "error iniciando FFmpeg"

\* the Warning event of a failed hardware-encoder probe
FallbackWarning(channelID, encoder) ==
    Event(EventWarning, channelID,
          "Encoder " \o encoder \o " no disponible (driver incompatible). Usando libx264 como fallback.")

NewProcess(channelID) ==
    [ch |-> channelID, alive |-> TRUE, exit |-> ExitClean, stopped |-> FALSE,
     waited |-> FALSE, out |-> ""]

\* a session record that no goroutine reads any more (process dead, cmd.Wait()
\* returned, stderr drained) carries no information
Finished(rec) ==
    [ch |-> rec.ch, alive |-> FALSE, exit |-> ExitClean, stopped |-> FALSE,
     waited |-> TRUE, out |-> ""]

\* once cmd.Wait() has returned, monitorProcess has read exit and stopped
Settle(ps) ==
    [p \in DOMAIN ps |->
        IF ~ps[p].alive /\ ps[p].waited /\ ps[p].out = "" THEN Finished(ps[p])
        ELSE IF ps[p].waited THEN [ps[p] EXCEPT !.exit = ExitClean, !.stopped = FALSE]
        ELSE ps[p]]

Live(c) == {p \in DOMAIN procs : procs[p].ch = c /\ procs[p].alive}

\* variant: startInternal that never finds a session for the id
SessionExists_Never(table, channelID) == FALSE

\* startInternal: proc, exists := m.processes[id]; proc.cmd != nil && proc.cmd.Process != nil
SessionExists(table, channelID) == channelID \in DOMAIN table

\* variant: startInternal that probes a hardware encoder whether or not the
\* fallback is enabled
ProbeRuns_Always(videoEncoder, enableFallback) == videoEncoder \in HardwareEncoders

\* startInternal: isHardwareEncoder && enableFallback
ProbeRuns(videoEncoder, enableFallback) ==
    videoEncoder \in HardwareEncoders /\ enableFallback

\* Manager.startInternal, called by worker w, which continues at pc next.
\* The whole call runs under m.mutex; the events go to onFFmpegEvent inside it.
\* enc is the encoder the arguments of the launched process name, probed
\* tells whether testHardwareEncoder was called.
startInternal(w, channelID, inputPath, videoEncoder, enableFallback, next) ==
    IF SessionExists(processes, channelID)
    THEN /\ wk' = [wk EXCEPT ![w].pc = next, ![w].err = ErrProcessExists(channelID),
                             ![w].enc = "", ![w].probed = FALSE]
         /\ emitted' = <<>>
         /\ UNCHANGED <<channels, restarts, processes, procs>>
    ELSE IF inputPath \notin files
    THEN /\ wk' = [wk EXCEPT ![w].pc = next, ![w].err = ErrInputNotFound(inputPath),
                             ![w].enc = "", ![w].probed = FALSE]
         /\ emitted' = <<>>
         /\ UNCHANGED <<channels, restarts, processes, procs>>
    ELSE \E probeOK \in IF ProbeRuns(videoEncoder, enableFallback)
                        THEN BOOLEAN ELSE {TRUE} :
         \E launched \in BOOLEAN :
            LET warning == IF probeOK THEN <<>>
                           ELSE <<FallbackWarning(channelID, videoEncoder)>>
                encoderUsed == IF probeOK THEN videoEncoder ELSE "libx264"
                pid == Len(procs) + 1
            IN  IF launched
                THEN /\ Len(procs) < MaxProcs
                     /\ procs' = Append(procs, NewProcess(channelID))
                     /\ processes' = MapPut(processes, channelID, pid)
                     /\ Emit(warning \o <<Event(EventStarted, channelID, "FFmpeg iniciado")>>)
                     /\ wk' = [wk EXCEPT ![w].pc = next, ![w].err = ErrNone, ![w].proc = pid,
                                         ![w].enc = encoderUsed,
                                         ![w].probed = ProbeRuns(videoEncoder, enableFallback)]
                ELSE /\ Emit(warning)
                     /\ wk' = [wk EXCEPT ![w].pc = next, ![w].err = ErrLaunch,
                                         ![w].enc = encoderUsed,
                                         ![w].probed = ProbeRuns(videoEncoder, enableFallback)]
                     /\ UNCHANGED <<processes, procs>>

\* a direct call of Manager.Start (enableFallback false) or of
\* Manager.StartWithFallback (enableFallback true)
SupervisorStart(w, channelID, inputPath, videoEncoder, enableFallback) ==
    /\ wk[w].pc = "idle"
    /\ startInternal(w, channelID, inputPath, videoEncoder, enableFallback, "return")
    /\ lastCall' = [NoCall EXCEPT !.op = IF enableFallback THEN "StartWithFallback"
                                         ELSE "Start",
                                  !.id = channelID, !.name = videoEncoder]
    /\ UNCHANGED <<created, files, mon, config, log, clients, conn, written>>

\* a direct call of Manager.Stop
SupervisorStop(w, channelID) ==
    /\ wk[w].pc = "idle"
    /\ wk' = [wk EXCEPT ![w] = [IdleWorker EXCEPT !.pc = "stop_flag", !.ch = channelID,
                                                   !.after = "return"]]
    /\ emitted' = <<>>
    /\ lastCall' = [NoCall EXCEPT !.op = "Stop", !.id = channelID]
    /\ UNCHANGED <<channels, created, processes, procs, restarts, files, mon, config, written,
                   log, clients, conn>>

\* the direct call returns to its caller, which drops the result
SupervisorReturn(w) ==
    /\ wk[w].pc = "return"
    /\ wk' = [wk EXCEPT ![w] = IdleWorker]
    /\ emitted' = <<>>
    /\ lastCall' = NoCall
    /\ UNCHANGED <<channels, created, processes, procs, restarts, files, mon, config, written,
                   log, clients, conn>>

\* Manager.Stop, first critical section: flag the session found in the table
StopFlag(w) ==
    /\ wk[w].pc = "stop_flag"
    /\ IF wk[w].ch \in DOMAIN processes
       THEN LET p == processes[wk[w].ch]
            IN  /\ procs' = Settle([procs EXCEPT ![p].stopped = TRUE])
                /\ wk' = [wk EXCEPT ![w].pc = "stop_kill", ![w].proc = p]
       ELSE /\ wk' = [wk EXCEPT ![w].pc = wk[w].after]
            /\ UNCHANGED procs
    /\ emitted' = <<>>
    /\ UNCHANGED <<channels, created, processes, restarts, files, mon, config, written, log,
                   clients, conn>>
    /\ lastCall' = NoCall

\* Manager.Stop: proc.cancel(), the 1 s grace period, proc.cmd.Process.Kill()
StopKill(w) ==
    /\ wk[w].pc = "stop_kill"
    /\ LET p == wk[w].proc
       IN  procs' = Settle([procs EXCEPT ![p].alive = FALSE,
                                  ![p].exit = IF procs[p].alive THEN ExitFatal ELSE @])
    /\ wk' = [wk EXCEPT ![w].pc = "stop_delete"]
    /\ emitted' = <<>>
    /\ UNCHANGED <<channels, created, processes, restarts, files, mon, config, written, log,
                   clients, conn>>
    /\ lastCall' = NoCall

\* Manager.Stop, second critical section: delete(m.processes, channelID)
StopDelete(w) ==
    /\ wk[w].pc = "stop_delete"
    /\ processes' = MapDel(processes, wk[w].ch)
    /\ wk' = [wk EXCEPT ![w].pc = "stop_emit"]
    /\ emitted' = <<>>
    /\ UNCHANGED <<channels, created, procs, restarts, files, mon, config, written, log, clients, conn>>
    /\ lastCall' = NoCall

\* Manager.Stop: the Stopped event, emitted after the lock is released
StopEmit(w) ==
    /\ wk[w].pc = "stop_emit"
    /\ Emit(<<Event(EventStopped, wk[w].ch, "Stream detenido")>>)
    /\ wk' = [wk EXCEPT ![w].pc = wk[w].after, ![w].proc = 0]
    /\ UNCHANGED <<created, processes, procs, files, mon, config, written, log, clients, conn>>
    /\ lastCall' = NoCall

\* the transcoding process ends by itself (crash, end of input, peer gone)
ProcessExit ==
    \E p \in DOMAIN procs :
        /\ procs[p].alive
        /\ \E e \in ExitErrors : procs' = Settle([procs EXCEPT ![p].alive = FALSE, ![p].exit = e])
        /\ emitted' = <<>>
        /\ UNCHANGED <<channels, created, processes, wk, restarts, files, mon, config, written,
                       log, clients, conn>>
        /\ lastCall' = NoCall

\* variant: monitorProcess without the intentionally-stopped test
MonitorSkips_Off(stopped) == FALSE

\* monitorProcess: if !proc.stopped { ... }
MonitorSkips(stopped) == stopped

\* the events monitorProcess emits once cmd.Wait() has returned
MonitorEvents(p) ==
    IF MonitorSkips(procs[p].stopped) \/ procs[p].ch \notin DOMAIN processes
    THEN <<>>
    ELSE IF procs[p].exit # ExitClean
    THEN <<Event(EventError, procs[p].ch, procs[p].exit)>>
    ELSE <<Event(EventStopped, procs[p].ch, "Proceso terminado normalmente")>>

\* variant: monitorProcess that leaves the entry in the table
MonitorProcess_NoDelete ==
    \E p \in DOMAIN procs :
        /\ ~procs[p].alive
        /\ ~procs[p].waited
        /\ procs' = Settle([procs EXCEPT ![p].waited = TRUE])
        /\ Emit(MonitorEvents(p))
        /\ processes' = processes
        /\ UNCHANGED <<created, wk, files, mon, config, written, log, clients, conn>>
        /\ lastCall' = NoCall

\* monitorProcess after cmd.Wait(): one critical section of m.mutex
MonitorProcess ==
    \E p \in DOMAIN procs :
        /\ ~procs[p].alive
        /\ ~procs[p].waited
        /\ procs' = Settle([procs EXCEPT ![p].waited = TRUE])
        /\ Emit(MonitorEvents(p))
        /\ processes' = IF MonitorSkips(procs[p].stopped) THEN processes
                        ELSE MapDel(processes, procs[p].ch)
        /\ UNCHANGED <<created, wk, files, mon, config, written, log, clients, conn>>
        /\ lastCall' = NoCall

\* the transcoder writes a line to its stderr pipe
WriteLine ==
    \E p \in DOMAIN procs :
        /\ procs[p].alive
        /\ procs[p].out = ""
        /\ written < MaxLines
        /\ written' = written + 1
        /\ \E l \in WrittenLines : procs' = Settle([procs EXCEPT ![p].out = l])
        /\ emitted' = <<>>
        /\ UNCHANGED <<channels, created, processes, wk, restarts, files, mon, config, log,
                       clients, conn>>
        /\ lastCall' = NoCall

\* parseProgress: the loop body runs for a line that scanner.Scan() returned
ParseProgress ==
    \E p \in DOMAIN procs :
        /\ procs[p].out # ""
        /\ \E due \in IF Contains(procs[p].out, "frame=") THEN BOOLEAN ELSE {FALSE} :
              Emit(ParsedEvents(procs[p].ch, procs[p].out, due))
        /\ procs' = Settle([procs EXCEPT ![p].out = ""])
        /\ UNCHANGED <<created, processes, wk, files, mon, config, written, log, clients, conn>>
        /\ lastCall' = NoCall

(***************************************************************************)
(* Application layer (App) and control-protocol handlers                   *)
(***************************************************************************)
\* goroutine w handles no request: its read loop waits in conn.ReadMessage()
Free(w) == wk[w].pc = "idle"

\* requests and GUI calls answered or still being handled
Requests ==
    Len(log) + Cardinality({w \in Workers :
                               wk[w].op \in {"play_video", "play", "stop", "start", "remove"}})

\* uuid string of the client whose read loop is goroutine w (Server.handleConnection)
ClientOf(w) == IF w = 1 THEN "c1c1c1c1-0001" ELSE "c2c2c2c2-0002"

\* the GUI is the caller of App.StartChannel
Gui == "gui"

\* websocket.ErrorResponse(action, errorMessage) for the request of client
ErrorResponse(client, request, channelId, filePath, action, errorMessage) ==
    [client |-> client, request |-> request, channelId |-> channelId,
     filePath |-> filePath, success |-> FALSE, action |-> action,
     error |-> errorMessage, data |-> NoData]

\* websocket.SuccessResponse(action, data)
SuccessResponse(client, request, channelId, filePath, action, data) ==
    [client |-> client, request |-> request, channelId |-> channelId,
     filePath |-> filePath, success |-> TRUE, action |-> action,
     error |-> "", data |-> data]

\* handleConnection: the `connected` message put on a new client's queue
Welcome(client) ==
    [request |-> 0,
     response |-> [client |-> client, request |-> "", channelId |-> "", filePath |-> "",
                   success |-> TRUE, action |-> "connected", error |-> "", data |-> NoData]]

\* readPump: c.messageCount++ for the message just read
Received(cl, client) == [cl EXCEPT ![client].messageCount = @ + 1]

\* variant: readPump that puts the response on the queue of every client
Deliver_All(cl, client, n, before, after) ==
    IF Len(after) > Len(before) /\ client \in DOMAIN cl
    THEN [c \in DOMAIN cl |->
             [cl[c] EXCEPT !.send = Append(@, [request |-> n, response |-> after[Len(after)]])]]
    ELSE cl

\* readPump: c.send <- response, for the response the handler returned to
\* request number n of this client (after is the log with that response)
Deliver(cl, client, n, before, after) ==
    IF Len(after) > Len(before) /\ client \in DOMAIN cl
    THEN [cl EXCEPT ![client].send = Append(@, [request |-> n, response |-> after[Len(after)]])]
    ELSE cl

\* Manager.GetByLabel: the channel with this label, or none
GetByLabel(chs, label) ==
    IF \E i \in DOMAIN chs : chs[i].Label = label
    THEN CHOOSE i \in DOMAIN chs : chs[i].Label = label
    ELSE ""

\* variant: handlePlayVideoRequest that finds no channel for a msg.ChannelID
ResolveChannel_None(chs, channelId) == ""

\* handlePlayVideoRequest: the channel id a non-empty msg.ChannelID resolves to
ResolveChannel(chs, channelId) ==
    IF channelId \in DOMAIN chs THEN channelId ELSE GetByLabel(chs, channelId)

\* variant: handlePlayVideoRequest without the search for the client's channel
ClientChannel_None(chs, client) == ""

\* handlePlayVideoRequest: the channel already labelled for this client, or ""
ClientChannel(chs, client) ==
    IF \E i \in DOMAIN chs : chs[i].Label = "Client_" \o client
    THEN CHOOSE i \in DOMAIN chs : chs[i].Label = "Client_" \o client
    ELSE ""

\* inputPath of StartChannel and attemptRestart
InputPath(ch) == IF ch.VideoPath = "" THEN ch.CurrentFile ELSE ch.VideoPath

\* App.AddChannel from the GUI
AppAddChannel(label) ==
    /\ Len(created) < MaxChannels
    /\ Add(label, "", "")
    /\ emitted' = <<>>
    /\ UNCHANGED <<processes, procs, wk, restarts, files, mon, config, log, clients, conn, written>>

\* App.StopAllStreams (GUI): channels := a.channelManager.GetAll()
StopAllStreams(w) ==
    /\ Free(w)
    /\ wk' = [wk EXCEPT ![w] = [IdleWorker EXCEPT !.pc = "stopall_ids",
                                                   !.op = "stop_all_streams",
                                                   !.client = Gui, !.snapshot = IDs]]
    /\ emitted' = <<>>
    /\ lastCall' = NoCall
    /\ UNCHANGED <<channels, created, processes, procs, restarts, files, mon, config, written,
                   log, clients, conn>>

\* Manager.StopAll: the ids of the session table, copied under the read lock
StopAllIDs(w) ==
    /\ wk[w].pc = "stopall_ids"
    /\ wk' = [wk EXCEPT ![w].pc = "stopall_next", ![w].ids = DOMAIN processes]
    /\ emitted' = <<>>
    /\ lastCall' = NoCall
    /\ UNCHANGED <<channels, created, processes, procs, restarts, files, mon, config, written,
                   log, clients, conn>>

\* variant: StopAll that stops one session of the copy and returns
StopAllRest_None(ids, id) == {}

\* Manager.StopAll: the ids the loop has still to stop after id
StopAllRest(ids, id) == ids \ {id}

\* Manager.StopAll: for _, id := range channelIDs { m.Stop(id) }, then return
StopAllNext(w) ==
    /\ wk[w].pc = "stopall_next"
    /\ IF wk[w].ids = {}
       THEN wk' = [wk EXCEPT ![w].pc = "stopall_status"]
       ELSE \E id \in wk[w].ids :
               wk' = [wk EXCEPT ![w].pc = "stop_flag", ![w].ch = id,
                                ![w].ids = StopAllRest(wk[w].ids, id),
                                ![w].after = "stopall_next"]
    /\ emitted' = <<>>
    /\ lastCall' = NoCall
    /\ UNCHANGED <<channels, created, processes, procs, restarts, files, mon, config, written,
                   log, clients, conn>>

\* App.StopAllStreams: SetStatus(ch.ID, StatusInactive) for a channel of the copy
StopAllStatus(w) ==
    /\ wk[w].pc = "stopall_status"
    /\ \E c \in wk[w].snapshot :
          /\ channels' = SetStatus(channels, c, StatusInactive)
          /\ wk' = [wk EXCEPT ![w].snapshot = @ \ {c}]
    /\ emitted' = <<>>
    /\ lastCall' = NoCall
    /\ UNCHANGED <<created, processes, procs, restarts, files, mon, config, written, log,
                   clients, conn>>

\* App.StopAllStreams: the loop is over, the call logs the count and returns
StopAllReturn(w) ==
    /\ wk[w].pc = "stopall_status"
    /\ wk[w].snapshot = {}
    /\ wk' = [wk EXCEPT ![w] = IdleWorker]
    /\ emitted' = <<>>
    /\ lastCall' = [NoCall EXCEPT !.op = "StopAllStreams"]
    /\ UNCHANGED <<channels, created, processes, procs, restarts, files, mon, config, written,
                   log, clients, conn>>

\* App.StartChannel (GUI): channelManager.Get and the stream configuration
StartChannel(w, id) ==
    /\ Free(w)
    /\ IF id \in IDs
       THEN /\ wk' = [wk EXCEPT ![w] = [IdleWorker EXCEPT !.pc = "start_start",
                                                          !.op = "start", !.ch = id,
                                                          !.client = Gui,
                                                          !.file = InputPath(channels[id])]]
            /\ log' = log
       ELSE /\ wk' = wk
            /\ log' = Append(log, ErrorResponse(Gui, "start", id, "", "", ErrNotFound))
    /\ conn' = conn
    /\ clients' = clients
    /\ emitted' = <<>>
    /\ lastCall' = NoCall
    /\ UNCHANGED <<channels, created, processes, procs, restarts, files, mon, config, written>>

\* App.StartChannel: ffmpegManager.StartWithFallback(ffmpegConfig)
StartChannelStart(w) ==
    /\ wk[w].pc = "start_start"
    /\ startInternal(w, wk[w].ch, wk[w].file, config.VideoEncoder, TRUE, "start_status")
    /\ lastCall' = NoCall
    /\ UNCHANGED <<created, files, mon, config, log, clients, conn, written>>

\* App.StartChannel: SetStatus(Error) on failure, SetStatus(Active) on success
StartChannelStatus(w) ==
    /\ wk[w].pc = "start_status"
    /\ channels' = SetStatus(channels, wk[w].ch,
                             IF wk[w].err = ErrNone THEN StatusActive ELSE StatusError)
    /\ log' = IF wk[w].op # "start" THEN log
              ELSE IF wk[w].err = ErrNone
              THEN Append(log, SuccessResponse(Gui, "start", wk[w].ch, wk[w].file, "", NoData))
              ELSE Append(log, ErrorResponse(Gui, "start", wk[w].ch, wk[w].file, "",
                                             wk[w].err))
    /\ conn' = conn
    /\ clients' = clients
    /\ wk' = [wk EXCEPT ![w] = IdleWorker]
    /\ emitted' = <<>>
    /\ lastCall' = NoCall
    /\ UNCHANGED <<created, processes, procs, restarts, files, mon, config, written>>

\* variant: attemptRestart without the test of ch.Status
AttemptRestart_AnyStatus(w) ==
    /\ Free(w)
    /\ \E c \in DOMAIN restarts :
          /\ restarts[c] > 0
          /\ restarts' = IF restarts[c] = 1 THEN MapDel(restarts, c)
                          ELSE [restarts EXCEPT ![c] = @ - 1]
          /\ IF /\ c \in IDs
                /\ InputPath(channels[c]) # ""
                /\ InputPath(channels[c]) \in files
             THEN wk' = [wk EXCEPT ![w] = [IdleWorker EXCEPT !.pc = "start_start",
                                                             !.op = "restart", !.ch = c,
                                                             !.file = InputPath(channels[c])]]
             ELSE wk' = wk
    /\ emitted' = <<>>
    /\ lastCall' = NoCall
    /\ UNCHANGED <<channels, created, processes, procs, files, mon, config, log, clients, conn, written>>

\* App.attemptRestart once its backoff has elapsed
AttemptRestart(w) ==
    /\ Free(w)
    /\ \E c \in DOMAIN restarts :
          /\ restarts[c] > 0
          /\ restarts' = IF restarts[c] = 1 THEN MapDel(restarts, c)
                          ELSE [restarts EXCEPT ![c] = @ - 1]
          /\ IF /\ c \in IDs
                /\ channels[c].Status = StatusError
                /\ InputPath(channels[c]) # ""
                /\ InputPath(channels[c]) \in files
             THEN wk' = [wk EXCEPT ![w] = [IdleWorker EXCEPT !.pc = "start_start",
                                                             !.op = "restart", !.ch = c,
                                                             !.file = InputPath(channels[c])]]
             ELSE wk' = wk
    /\ emitted' = <<>>
    /\ lastCall' = NoCall
    /\ UNCHANGED <<channels, created, processes, procs, files, mon, config, log, clients, conn, written>>

\* variant: App.StopChannel without the error of channelManager.Get
StopChannelGet_Nil(chs, channelID) == ErrNone

\* App.StopChannel: ch, err := a.channelManager.Get(channelID); the error returned
StopChannelGet(chs, channelID) ==
    IF channelID \in DOMAIN chs THEN ErrNone ELSE ErrNotFound

\* handleStopRequest -> App.StopChannel: channelManager.Get
HandleStopRequest(w, client, channelId) ==
    /\ Free(w)
    /\ IF StopChannelGet(channels, channelId) # ErrNone
       THEN /\ log' = Append(log, ErrorResponse(client, "stop", channelId, "",
                                                "stop_error",
                                                StopChannelGet(channels, channelId)))
            /\ wk' = wk
       ELSE /\ wk' = [wk EXCEPT ![w] = [IdleWorker EXCEPT !.pc = "stop_flag", !.op = "stop",
                                                          !.ch = channelId,
                                                          !.after = "stop_status",
                                                          !.client = client,
                                                          !.seq = clients[client].messageCount + 1]]
            /\ log' = log
    /\ conn' = conn
    /\ clients' = Deliver(Received(clients, client), client,
                          clients[client].messageCount + 1, log, log')
    /\ emitted' = <<>>
    /\ lastCall' = NoCall
    /\ UNCHANGED <<channels, created, processes, procs, restarts, files, mon, config, written>>

\* App.StopChannel after ffmpegManager.Stop: SetStatus(Inactive), then the response
StopChannelStatus(w) ==
    /\ wk[w].pc = "stop_status"
    /\ channels' = SetStatus(channels, wk[w].ch, StatusInactive)
    /\ log' = Append(log, SuccessResponse(wk[w].client, "stop", wk[w].ch, "", "play_stopped",
                                          [NoData EXCEPT !.channelId = wk[w].ch]))
    /\ conn' = conn
    /\ clients' = Deliver(clients, wk[w].client, wk[w].seq, log, log')
    /\ wk' = [wk EXCEPT ![w] = IdleWorker]
    /\ emitted' = <<>>
    /\ lastCall' = NoCall
    /\ UNCHANGED <<created, processes, procs, restarts, files, mon, config, written>>

\* App.RemoveChannel (GUI): a.ffmpegManager.Stop(channelID) comes first
RemoveChannel(w, id) ==
    /\ Free(w)
    /\ wk' = [wk EXCEPT ![w] = [IdleWorker EXCEPT !.pc = "stop_flag", !.op = "remove",
                                                   !.ch = id, !.client = Gui,
                                                   !.after = "remove_remove"]]
    /\ emitted' = <<>>
    /\ lastCall' = NoCall
    /\ UNCHANGED <<channels, created, processes, procs, restarts, files, mon, config, written,
                   log, clients, conn>>

\* App.RemoveChannel after ffmpegManager.Stop: channelManager.Remove, then the result
RemoveChannelRemove(w) ==
    /\ wk[w].pc = "remove_remove"
    /\ LET r == RemoveResult(channels, wk[w].ch)
       IN  /\ channels' = r.chs
           /\ log' = Append(log,
                       IF r.err = ErrNone
                       THEN SuccessResponse(Gui, "remove", wk[w].ch, "", "channel:removed",
                                            NoData)
                       ELSE ErrorResponse(Gui, "remove", wk[w].ch, "", "", r.err))
    /\ wk' = [wk EXCEPT ![w] = IdleWorker]
    /\ emitted' = <<>>
    /\ lastCall' = NoCall
    /\ UNCHANGED <<created, processes, procs, restarts, files, mon, config, written, clients, conn>>

\* variant: handlePlayVideoRequest without the os.Stat test
ValidatePath_NoStat(filePath, existing) ==
    IF filePath = ""
    THEN [action |-> "missing_file_path",
          error |-> "Se requiere la ruta del video (filePath)"]
    ELSE [action |-> "", error |-> ""]

\* handlePlayVideoRequest: msg.FilePath == "" and os.Stat(msg.FilePath)
ValidatePath(filePath, existing) ==
    IF filePath = ""
    THEN [action |-> "missing_file_path",
          error |-> "Se requiere la ruta del video (filePath)"]
    ELSE IF filePath \notin existing
    THEN [action |-> "file_not_found", error |-> "Archivo no encontrado: " \o filePath]
    ELSE [action |-> "", error |-> ""]

\* handlePlayVideoRequest up to the call of PlayVideoOnChannel
HandlePlayVideoRequest(w, client, channelId, filePath) ==
    /\ Free(w)
    /\ emitted' = <<>>
    /\ UNCHANGED <<processes, procs, restarts, files, mon, config, written>>
    /\ LET invalid == ValidatePath(filePath, files)
           fail(action, message) ==
               /\ log' = Append(log, ErrorResponse(client, "play_video", channelId, filePath,
                                                   action, message))
               /\ wk' = wk
           play(id) ==
               /\ log' = log
               /\ wk' = [wk EXCEPT ![w] =
                           [IdleWorker EXCEPT !.pc = "play_get", !.op = "play_video",
                                              !.ch = id, !.file = filePath,
                                              !.client = client, !.req = channelId,
                                              !.seq = clients[client].messageCount + 1,
                                              !.port = channels'[id].SRTPort,
                                              !.name = channels'[id].SRTStreamName]]
           keep == UNCHANGED <<channels, created>> /\ lastCall' = NoCall
       IN  IF invalid.action # ""
           THEN keep /\ fail(invalid.action, invalid.error)
           ELSE IF channelId # ""
           THEN IF ResolveChannel(channels, channelId) = ""
                THEN keep /\ fail("channel_not_found",
                                  "Canal '" \o channelId \o "' no encontrado")
                ELSE keep /\ play(ResolveChannel(channels, channelId))
           ELSE IF ClientChannel(channels, client) # ""
           THEN keep /\ play(ClientChannel(channels, client))
           ELSE /\ Len(created) < MaxClientChannels
                /\ Add("Client_" \o client, filePath,
                       config.SRTPrefix \o SubSeq(client, 1, 8))
                /\ IF lastCall'.err # ErrNone
                   THEN fail("channel_create_error", lastCall'.err)
                   ELSE play(lastCall'.id)
    /\ conn' = conn
    /\ clients' = Deliver(Received(clients, client), client,
                          clients[client].messageCount + 1, log, log')

\* App.PlayVideoOnChannel: channelManager.Get; a channel marked active is stopped first
PlayGet(w) ==
    /\ wk[w].pc = "play_get"
    /\ IF wk[w].ch \notin IDs
       THEN /\ log' = Append(log, ErrorResponse(wk[w].client, wk[w].op, wk[w].req, wk[w].file,
                                                "play_error", ErrNotFound))
            /\ wk' = [wk EXCEPT ![w] = IdleWorker]
       ELSE /\ log' = log
            /\ wk' = [wk EXCEPT ![w].pc = IF channels[wk[w].ch].Status = StatusActive
                                          THEN "stop_flag" ELSE "play_setfile",
                                ![w].after = "play_setfile"]
    /\ conn' = conn
    /\ clients' = Deliver(clients, wk[w].client, wk[w].seq, log, log')
    /\ emitted' = <<>>
    /\ lastCall' = NoCall
    /\ UNCHANGED <<channels, created, processes, procs, restarts, files, mon, config, written>>

\* App.PlayVideoOnChannel: channelManager.SetCurrentFile(channelID, videoPath)
PlaySetFile(w) ==
    /\ wk[w].pc = "play_setfile"
    /\ channels' = SetCurrentFile(channels, wk[w].ch, wk[w].file)
    /\ wk' = [wk EXCEPT ![w].pc = "play_start"]
    /\ emitted' = <<>>
    /\ lastCall' = NoCall
    /\ UNCHANGED <<created, processes, procs, restarts, files, mon, config, log, clients, conn, written>>

\* App.PlayVideoOnChannel: ffmpegManager.StartWithFallback (no encoder configured)
PlayStart(w) ==
    /\ wk[w].pc = "play_start"
    /\ startInternal(w, wk[w].ch, wk[w].file, "", TRUE, "play_status")
    /\ lastCall' = NoCall
    /\ UNCHANGED <<created, files, mon, config, log, clients, conn, written>>

\* App.PlayVideoOnChannel: the final SetStatus, then the handler's response
PlayStatus(w) ==
    /\ wk[w].pc = "play_status"
    /\ channels' = SetStatus(channels, wk[w].ch,
                             IF wk[w].err = ErrNone THEN StatusActive ELSE StatusError)
    /\ log' = Append(log,
                IF wk[w].err = ErrNone
                THEN SuccessResponse(wk[w].client, wk[w].op, wk[w].req, wk[w].file,
                                     "play_started",
                                     [channelId |-> wk[w].ch, streamName |-> wk[w].name,
                                      srtPort |-> wk[w].port, filePath |-> wk[w].file])
                ELSE ErrorResponse(wk[w].client, wk[w].op, wk[w].req, wk[w].file,
                                   "play_error", wk[w].err))
    /\ conn' = conn
    /\ clients' = Deliver(clients, wk[w].client, wk[w].seq, log, log')
    /\ wk' = [wk EXCEPT ![w] = IdleWorker]
    /\ emitted' = <<>>
    /\ lastCall' = NoCall
    /\ UNCHANGED <<created, processes, procs, restarts, files, mon, config, written>>

(***************************************************************************)
(* Control protocol: envelopes, App.handleWebSocketMessage                 *)
(***************************************************************************)
\* strings.Index: offset of the first occurrence of sub in s, or -1
Index(s, sub) ==
    LET at == {i \in 1 .. (Len(s) - Len(sub) + 1) : SubSeq(s, i, i + Len(sub) - 1) = sub}
    IN  IF at = {} THEN 0 - 1 ELSE (CHOOSE i \in at : \A j \in at : i <= j) - 1

\* handleWebSocketMessage: whatever precedes the first "{" is cut off
StripPrefix(raw) ==
    LET jsonStart == Index(raw, "{")
    IN  IF jsonStart > 0 THEN SubSeq(raw, jsonStart + 1, Len(raw)) ELSE raw

\* the value of a string member of a JSON object text, "" when it is absent
Field(text, key) ==
    LET pat == "\"" \o key \o "\":\""
        i == Index(text, pat)
        rest == SubSeq(text, i + Len(pat) + 1, Len(text))
    IN  IF i < 0 THEN "" ELSE SubSeq(rest, 1, Index(rest, "\""))

\* json.Marshal of a websocket.Message (channelId and filePath are omitempty)
Json(action, channelId, filePath) ==
    "{\"action\":\"" \o action \o "\""
      \o (IF channelId = "" THEN "" ELSE ",\"channelId\":\"" \o channelId \o "\"")
      \o (IF filePath = "" THEN "" ELSE ",\"filePath\":\"" \o filePath \o "\"")
      \o "}"

\* json.Unmarshal(message, &msg): the text must be an object of the members
\* action, channelId and filePath; anything else is a syntax or a type error
Unmarshal(text) ==
    LET msg == [Action |-> Field(text, "action"), ChannelID |-> Field(text, "channelId"),
                FilePath |-> Field(text, "filePath")]
    IN  IF text = Json(msg.Action, msg.ChannelID, msg.FilePath)
        THEN [ok |-> TRUE, msg |-> msg]
        ELSE IF text = "{}" \/ text = "null"
        THEN [ok |-> TRUE, msg |-> [Action |-> "", ChannelID |-> "", FilePath |-> ""]]
        ELSE [ok |-> FALSE, msg |-> [Action |-> "", ChannelID |-> "", FilePath |-> ""]]

\* filepath.Dir
Dir(path) ==
    LET at == {i \in 1 .. Len(path) : SubSeq(path, i, i) = "/"}
        last == CHOOSE i \in at : \A j \in at : j <= i
    IN  IF at = {} THEN "." ELSE IF last = 1 THEN "/" ELSE SubSeq(path, 1, last - 1)

\* a handler that answers at once: the response goes on the log and, through
\* readPump, on the queue of the client that sent the request
AnswerNow(w, client, response) ==
    /\ Free(w)
    /\ log' = Append(log, response)
    /\ conn' = conn
    /\ clients' = Deliver(Received(clients, client), client,
                          clients[client].messageCount + 1, log, log')
    /\ emitted' = <<>>
    /\ lastCall' = NoCall
    /\ UNCHANGED <<channels, created, processes, procs, wk, restarts, files, mon, config,
                   written>>

\* handlePlayRequest: channelManager.Get, then PlayVideoOnChannel with the
\* request's file or else the channel's configured video
HandlePlayRequest(w, client, channelId, filePath) ==
    IF channelId \notin IDs
    THEN AnswerNow(w, client, ErrorResponse(client, "play", channelId, filePath,
                                            "channel_not_found", "Canal no encontrado"))
    ELSE LET videoPath == IF filePath = "" THEN channels[channelId].VideoPath ELSE filePath
         IN  /\ Free(w)
             /\ wk' = [wk EXCEPT ![w] =
                         [IdleWorker EXCEPT !.pc = "play_get", !.op = "play",
                                            !.ch = channelId, !.file = videoPath,
                                            !.client = client, !.req = channelId,
                                            !.seq = clients[client].messageCount + 1,
                                            !.port = channels[channelId].SRTPort,
                                            !.name = channels[channelId].SRTStreamName]]
             /\ conn' = conn
             /\ clients' = Received(clients, client)
             /\ emitted' = <<>>
             /\ lastCall' = NoCall
             /\ UNCHANGED <<channels, created, processes, procs, restarts, files, mon, config,
                            written, log>>

\* the data of a response that describes one channel
ChannelData(ch) ==
    [channelId |-> ch.ID, streamName |-> ch.SRTStreamName, srtPort |-> ch.SRTPort,
     filePath |-> ch.CurrentFile]

\* handleStatusRequest
HandleStatusRequest(w, client, channelId) ==
    AnswerNow(w, client,
        IF channelId = ""
        THEN SuccessResponse(client, "status", channelId, "", "all_channels_status", NoData)
        ELSE IF channelId \notin IDs
        THEN ErrorResponse(client, "status", channelId, "", "channel_not_found",
                           "Canal no encontrado")
        ELSE SuccessResponse(client, "status", channelId, "", "channel_status",
                             ChannelData(channels[channelId])))

\* handleListChannelsRequest
HandleListChannelsRequest(w, client) ==
    AnswerNow(w, client, SuccessResponse(client, "list_channels", "", "", "channels_list", NoData))

\* variant: handleListFilesRequest that reports an unknown channel as list_error
HandleListFilesRequest_ListError(w, client, channelId) ==
    AnswerNow(w, client,
        IF channelId \notin IDs
        THEN ErrorResponse(client, "list_files", channelId, "", "list_error",
                           "Canal no encontrado")
        ELSE SuccessResponse(client, "list_files", channelId, "", "files_list", NoData))

\* handleListFilesRequest: filepath.Walk fails when the directory of the
\* channel's video does not exist
HandleListFilesRequest(w, client, channelId) ==
    AnswerNow(w, client,
        IF channelId \notin IDs
        THEN ErrorResponse(client, "list_files", channelId, "", "channel_not_found",
                           "Canal no encontrado")
        ELSE IF Dir(channels[channelId].VideoPath) \notin {Dir(f) : f \in files} \cup {"."}
        THEN ErrorResponse(client, "list_files", channelId, "", "list_error",
                           "lstat " \o Dir(channels[channelId].VideoPath))
        ELSE SuccessResponse(client, "list_files", channelId, "", "files_list", NoData))

\* variant: handleWebSocketMessage whose default case is the stop handler
Dispatch_StopDefault(w, client, parsed) ==
    IF ~parsed.ok
    THEN AnswerNow(w, client, ErrorResponse(client, "", "", "", "invalid_message",
                                            "Error parseando mensaje"))
    ELSE HandleStopRequest(w, client, parsed.msg.ChannelID)

\* App.handleWebSocketMessage for the parsed message of a client
Dispatch(w, client, parsed) ==
    IF ~parsed.ok
    THEN AnswerNow(w, client, ErrorResponse(client, "", "", "", "invalid_message",
                                            "Error parseando mensaje"))
    ELSE LET msg == parsed.msg
         IN  CASE msg.Action = "play_video" ->
                      HandlePlayVideoRequest(w, client, msg.ChannelID, msg.FilePath)
               [] msg.Action = "play" ->
                      HandlePlayRequest(w, client, msg.ChannelID, msg.FilePath)
               [] msg.Action = "stop" -> HandleStopRequest(w, client, msg.ChannelID)
               [] msg.Action = "status" -> HandleStatusRequest(w, client, msg.ChannelID)
               [] msg.Action = "list_channels" -> HandleListChannelsRequest(w, client)
               [] msg.Action = "list_files" ->
                      HandleListFilesRequest(w, client, msg.ChannelID)
               [] OTHER ->
                      AnswerNow(w, client,
                                ErrorResponse(client, msg.Action, msg.ChannelID, msg.FilePath,
                                              "unknown_action", "Acción desconocida"))

\* the channelId members of the messages: ids, a label, an unknown id, none
MessageChannels == {NewID(n) : n \in 1 .. MaxClientChannels} \cup {"", "A", UnknownID}

\* the texts the first client sends
RawMessages ==
    {Json("play_video", c, Intro) : c \in MessageChannels}
      \cup {Json("play_video", c, Outro) : c \in MessageChannels \ {"", UnknownID}}
      \cup {Json("play_video", c, MissingPath) : c \in MessageChannels \ {"", "A"}}
      \cup {Json("play", c, "") : c \in MessageChannels \ {"", "A"}}
      \cup {Json("stop", c, "") : c \in MessageChannels \ {"", "A"}}
      \cup {Json("status", c, "") : c \in MessageChannels \ {"A"}}
      \cup {Json("list_files", c, "") : c \in MessageChannels \ {"", "A"}}
      \cup {Json("list_channels", "", ""), Json("restart", NewID(1), ""), "hola",
            "42" \o Json("stop", NewID(1), "")}

\* the texts the second client sends
RawQueries == {Json("status", "", ""), "{\"action\":"}

\* the texts of a client that plays two files on a channel the GUI created
ChannelMessages ==
    {Json("play_video", NewID(1), Intro), Json("play_video", NewID(1), Outro),
     Json("stop", NewID(1), ""), Json("status", NewID(1), "")}

\* handleWebSocketMessage up to the switch, evaluated once per text
ParsedMessage ==
    [raw \in RawMessages \cup RawQueries \cup ChannelMessages |-> Unmarshal(StripPrefix(raw))]

\* a message names a registered channel, a label, an unknown id or no channel
Addressed(raw) == ParsedMessage[raw].msg.ChannelID \in IDs \cup {"", "A", UnknownID}

\* readPump of the client served by goroutine w: one message is read and
\* handed to the message handler
ReadPump(w, raw) == Dispatch(w, ClientOf(w), ParsedMessage[raw])

(***************************************************************************)
(* Reconciliation (App.monitorChannels, every 5 s)                         *)
(***************************************************************************)
\* Manager.IsRunning: the table entry exists and cmd.ProcessState is nil or
\* not Exited(). ProcessState is written by cmd.Wait() in another goroutine
\* without synchronisation, and Exited() of a killed process depends on the
\* platform, so both answers are possible once the process is dead.
IsRunning(channelID) ==
    IF channelID \notin DOMAIN processes THEN {FALSE}
    ELSE IF procs[processes[channelID]].alive THEN {TRUE}
    ELSE BOOLEAN

\* monitorChannels between two ticks
NoScan == [todo |-> {}, set |-> ""]

\* the ticker fires: channels := a.channelManager.GetAll()
MonitorTick ==
    /\ mon = NoScan
    /\ \E c \in IDs : channels[c].Status = StatusActive
    /\ mon' = [todo |-> {c \in IDs : channels[c].Status = StatusActive}, set |-> ""]
    /\ emitted' = <<>>
    /\ lastCall' = NoCall
    /\ UNCHANGED <<channels, created, processes, procs, wk, restarts, files, config, written,
                   log, clients, conn>>

\* the loop body for one active channel of the snapshot: IsRunning(ch.ID)
MonitorCheck ==
    /\ mon.set = ""
    /\ \E c \in mon.todo : \E running \in IsRunning(c) :
          mon' = [todo |-> mon.todo \ {c}, set |-> IF running THEN "" ELSE c]
    /\ emitted' = <<>>
    /\ lastCall' = NoCall
    /\ UNCHANGED <<channels, created, processes, procs, wk, restarts, files, config, written,
                   log, clients, conn>>

\* the loop body, continued: SetStatus(ch.ID, StatusInactive)
MonitorSet ==
    /\ mon.set # ""
    /\ channels' = SetStatus(channels, mon.set, StatusInactive)
    /\ mon' = [mon EXCEPT !.set = ""]
    /\ emitted' = <<>>
    /\ lastCall' = NoCall
    /\ UNCHANGED <<created, processes, procs, wk, restarts, files, config, written,
                   log, clients, conn>>

(***************************************************************************)
(* Outbound queues (websocket.Server.Broadcast, Client.writePump)          *)
(***************************************************************************)
\* send: make(chan []byte, 256)
sendCapacity == 256

\* the envelope of a message that is sent to every client
Notification(message) ==
    [client |-> "", request |-> "", channelId |-> "", filePath |-> "", success |-> TRUE,
     action |-> message, error |-> "", data |-> NoData]

\* select { case client.send <- message: default: } for one client
TrySend(client, entry) ==
    IF Len(client.send) < sendCapacity
    THEN [client EXCEPT !.send = Append(@, entry)]
    ELSE client

\* variant: Server.Broadcast that enqueues on full queues as well
Broadcast_NoDrop(message) ==
    /\ conn' = conn
    /\ clients' = [c \in DOMAIN clients |->
                      [clients[c] EXCEPT !.send =
                          Append(@, [request |-> 0, response |-> Notification(message)])]]
    /\ log' = Append(log, Notification(message))
    /\ emitted' = <<>>
    /\ lastCall' = [NoCall EXCEPT !.op = "Broadcast", !.name = message]
    /\ UNCHANGED <<channels, created, processes, procs, wk, restarts, files, mon, config,
                   written>>

\* Server.Broadcast(message)
Broadcast(message) ==
    /\ conn' = conn
    /\ clients' = [c \in DOMAIN clients |->
                      TrySend(clients[c], [request |-> 0, response |-> Notification(message)])]
    /\ log' = Append(log, Notification(message))
    /\ emitted' = <<>>
    /\ lastCall' = [NoCall EXCEPT !.op = "Broadcast", !.name = message]
    /\ UNCHANGED <<channels, created, processes, procs, wk, restarts, files, mon, config,
                   written>>

\* Client.writePump: one message and whatever else is queued go into one write
WritePump(c) ==
    /\ c \in DOMAIN clients
    /\ clients[c].send # <<>>
    /\ conn' = conn
    /\ clients' = [clients EXCEPT ![c].send = <<>>]
    /\ emitted' = <<>>
    /\ lastCall' = NoCall
    /\ UNCHANGED <<channels, created, processes, procs, wk, restarts, files, mon, config,
                   written, log>>

\* variant: unregisterClient without the test that the client is registered
unregisterClient_NoTest(table, objects, c) ==
    [table |-> MapDel(table, c), objects |-> [objects EXCEPT ![c].closed = @ + 1]]

\* Server.unregisterClient: if _, ok := s.clients[clientID]; ok { delete; close }
unregisterClient(table, objects, c) ==
    IF c \in DOMAIN table
    THEN [table |-> MapDel(table, c), objects |-> [objects EXCEPT ![c].closed = @ + 1]]
    ELSE [table |-> table, objects |-> objects]

\* Server.unregisterClient for a client that is registered
UnregisterClient(c) ==
    /\ c \in DOMAIN clients
    /\ conn' = unregisterClient(clients, conn, c).objects
    /\ clients' = unregisterClient(clients, conn, c).table
    /\ emitted' = <<>>
    /\ lastCall' = NoCall
    /\ UNCHANGED <<channels, created, processes, procs, wk, restarts, files, mon, config,
                   written, log>>

\* Server.handleConnection up to registerClient: a Client with a new id
\* and an empty queue is put into the table
HandleConnection(w) ==
    /\ wk[w].pc = "idle"
    /\ ClientOf(w) \notin DOMAIN conn
    /\ clients' = MapPut(clients, ClientOf(w), [send |-> <<>>, messageCount |-> 0])
    /\ conn' = MapPut(conn, ClientOf(w), [closed |-> 0, connected |-> 0])
    /\ wk' = [wk EXCEPT ![w].pc = "welcome"]
    /\ emitted' = <<>>
    /\ lastCall' = [NoCall EXCEPT !.op = "handleConnection", !.id = ClientOf(w)]
    /\ UNCHANGED <<channels, created, processes, procs, restarts, files, mon, config, written,
                   log>>

\* Server.handleConnection: client.send <- welcomeBytes, which waits while
\* the queue is full, then go writePump() and go readPump()
WelcomeSend(w) ==
    /\ wk[w].pc = "welcome"
    /\ Len(clients[ClientOf(w)].send) < sendCapacity
    /\ clients' = [clients EXCEPT ![ClientOf(w)].send = Append(@, Welcome(ClientOf(w)))]
    /\ conn' = [conn EXCEPT ![ClientOf(w)].connected = @ + 1]
    /\ wk' = [wk EXCEPT ![w].pc = "idle"]
    /\ emitted' = <<>>
    /\ lastCall' = NoCall
    /\ UNCHANGED <<channels, created, processes, procs, restarts, files, mon, config, written,
                   log>>

\* the read loop of the client of goroutine w waits in conn.ReadMessage()
Reading(w) ==
    /\ wk[w].pc = "idle"
    /\ ClientOf(w) \in DOMAIN conn
    /\ conn[ClientOf(w)].connected > 0
    /\ conn[ClientOf(w)].closed = 0

\* readPump: ReadMessage fails, the deferred unregisterClient(c) runs
Disconnect(w) ==
    /\ Reading(w)
    /\ conn' = unregisterClient(clients, conn, ClientOf(w)).objects
    /\ clients' = unregisterClient(clients, conn, ClientOf(w)).table
    /\ emitted' = <<>>
    /\ lastCall' = [NoCall EXCEPT !.op = "disconnect", !.id = ClientOf(w)]
    /\ UNCHANGED <<channels, created, processes, procs, wk, restarts, files, mon, config,
                   written, log>>

\* Server.unregisterClient called once more for a client that has disconnected
UnregisterAgain(w) ==
    /\ ClientOf(w) \in DOMAIN conn
    /\ conn[ClientOf(w)].closed > 0
    /\ conn' = unregisterClient(clients, conn, ClientOf(w)).objects
    /\ clients' = unregisterClient(clients, conn, ClientOf(w)).table
    /\ emitted' = <<>>
    /\ lastCall' = [NoCall EXCEPT !.op = "unregisterClient", !.id = ClientOf(w)]
    /\ UNCHANGED <<channels, created, processes, procs, wk, restarts, files, mon, config,
                   written, log>>

(***************************************************************************)
(* Initial state: NewApp + Startup with no channels.json on disk           *)
(***************************************************************************)
\* config.Default()
DefaultConfig == [AutoRestart |-> TRUE, VideoEncoder |-> "libx264", SRTPrefix |-> "SRT_SERVER_"]

\* everything but the connected clients
InitServer ==
    /\ channels = <<>>
    /\ created = <<>>
    /\ lastCall = NoCall
    /\ processes = <<>>
    /\ procs = <<>>
    /\ wk = [w \in Workers |-> IdleWorker]
    /\ restarts = <<>>
    /\ emitted = <<>>
    /\ files = VideoPaths
    /\ written = 0
    /\ log = <<>>
    /\ mon = NoScan

\* a Client after handleConnection: its queue has not been closed and one
\* `connected` message has been put on it
Greeted == [closed |-> 0, connected |-> 1]

InitCommon ==
    /\ InitServer
    /\ clients = [c \in {ClientOf(w) : w \in Workers} |->
                    [send |-> <<Welcome(c)>>, messageCount |-> 0]]
    /\ conn = [c \in {ClientOf(w) : w \in Workers} |-> Greeted]

(***************************************************************************)
(* SpecRegistry: the channel registry driven by Add, Update and Remove     *)
(***************************************************************************)
InitRegistry ==
    /\ InitCommon
    /\ config = DefaultConfig

NextRegistry == AddChannel \/ UpdateChannel \/ RemoveIdle

SpecRegistry == InitRegistry /\ [][NextRegistry]_vars

(***************************************************************************)
(* Steps shared by the engine specifications                               *)
(***************************************************************************)
\* the rest of App.StartChannel once the channel has been read
StartSteps(w) == StartChannelStart(w) \/ StartChannelStatus(w)

\* Manager.Stop and the rest of App.StopChannel
StopSteps(w) ==
    StopFlag(w) \/ StopKill(w) \/ StopDelete(w) \/ StopEmit(w) \/ StopChannelStatus(w)

\* the rest of App.PlayVideoOnChannel and of handlePlayVideoRequest
PlaySteps(w) == PlayGet(w) \/ PlaySetFile(w) \/ PlayStart(w) \/ PlayStatus(w)

(***************************************************************************)
(* Spec: one client whose well-formed requests are handled one after the   *)
(* other, while processes exit, write to stderr and are restarted          *)
(***************************************************************************)
Init ==
    /\ InitCommon
    /\ config = DefaultConfig

Next ==
    \/ Requests < MaxRequests /\ HandlePlayVideoRequest(1, ClientOf(1), "", Intro)
    \/ \E id \in IDs :
          Requests < MaxRequests /\ HandleStopRequest(1, ClientOf(1), id)
    \/ AttemptRestart(1)
    \/ StartSteps(1) \/ StopSteps(1) \/ PlaySteps(1)
    \/ ProcessExit \/ MonitorProcess
    \/ WriteLine \/ ParseProgress

Spec == Init /\ [][Next]_vars

(***************************************************************************)
(* SpecRequests: the GUI and one client send any request, valid or not     *)
(***************************************************************************)
NextRequests ==
    \/ \E label \in GuiLabels : AppAddChannel(label)
    \/ \E id \in IDs \cup {UnknownID} :
          Requests < MaxRequests /\ StartChannel(1, id)
    \/ \E channelId \in IDs \cup {"", UnknownID}, filePath \in RequestPaths :
          Requests < MaxRequests /\ HandlePlayVideoRequest(1, ClientOf(1), channelId, filePath)
    \/ \E channelId \in IDs \cup {UnknownID} :
          Requests < MaxRequests /\ HandleStopRequest(1, ClientOf(1), channelId)
    \/ AttemptRestart(1)
    \/ StartSteps(1) \/ StopSteps(1) \/ PlaySteps(1)
    \/ ProcessExit \/ MonitorProcess

SpecRequests == Init /\ [][NextRequests]_vars

(***************************************************************************)
(* SpecProtocol: the GUI adds a channel, a first client sends any message  *)
(* and a second client sends queries; automatic restart is switched off    *)
(***************************************************************************)
\* automatic restart switched off in the configuration
InitConcurrent ==
    /\ InitCommon
    /\ config = [DefaultConfig EXCEPT !.AutoRestart = FALSE]

NextProtocol ==
    \/ \E label \in GuiLabels : AppAddChannel(label)
    \/ \E raw \in RawMessages :
          Requests < MaxRequests /\ Addressed(raw) /\ ReadPump(1, raw)
    \/ \E raw \in RawQueries :
          Requests < MaxRequests /\ ReadPump(2, raw)
    \/ StopSteps(1) \/ PlaySteps(1)
    \/ ProcessExit \/ MonitorProcess

SpecProtocol == InitConcurrent /\ [][NextProtocol]_vars

(***************************************************************************)
(* SpecChannel: one client plays files on a channel that the GUI created,  *)
(* stops it and asks for its status, while processes exit, the restart     *)
(* policy acts and the reconciliation loop runs                            *)
(***************************************************************************)
NextChannel ==
    \/ \E label \in GuiLabels : AppAddChannel(label)
    \/ \E raw \in ChannelMessages :
          Requests < MaxRequests /\ Addressed(raw) /\ ReadPump(1, raw)
    \/ AttemptRestart(1)
    \/ StartSteps(1) \/ StopSteps(1) \/ PlaySteps(1)
    \/ ProcessExit \/ MonitorProcess
    \/ MonitorTick \/ MonitorCheck \/ MonitorSet

SpecChannel == Init /\ [][NextChannel]_vars

(***************************************************************************)
(* SpecRestart: the attemptRestart goroutines run beside the read loop of  *)
(* a client that plays files on a channel of the GUI and stops it          *)
(***************************************************************************)
NextRestart ==
    \/ \E label \in GuiLabels : AppAddChannel(label)
    \/ \E raw \in ChannelMessages :
          Requests < MaxRequests /\ Addressed(raw) /\ ReadPump(1, raw)
    \/ AttemptRestart(2)
    \/ StartSteps(2) \/ StopSteps(1) \/ PlaySteps(1)
    \/ ProcessExit \/ MonitorProcess

SpecRestart == Init /\ [][NextRestart]_vars

(***************************************************************************)
(* SpecSupervisor: the supervisor called directly for two channels, one of *)
(* them registered, with every encoder, with and without the fallback      *)
(***************************************************************************)
\* the channel ids of the direct calls
SupervisorChannels == {NewID(1), NewID(2)}

\* the encoders of the direct calls
Encoders == {"libx264", "h264_nvenc", "h264_amf"}

NextSupervisor ==
    \/ \E label \in GuiLabels : AppAddChannel(label)
    \/ \E c \in SupervisorChannels, path \in {Intro, MissingPath}, e \in Encoders,
          fallback \in BOOLEAN :
             Len(procs) < MaxSessions /\ SupervisorStart(1, c, path, e, fallback)
    \/ \E c \in SupervisorChannels : SupervisorStop(1, c)
    \/ StopFlag(1) \/ StopKill(1) \/ StopDelete(1) \/ StopEmit(1)
    \/ SupervisorReturn(1)
    \/ ProcessExit \/ MonitorProcess

SpecSupervisor == InitConcurrent /\ [][NextSupervisor]_vars

\* the monitor loops and a Stop that has begun run to their end
FairSupervisor ==
    /\ WF_vars(MonitorProcess)
    /\ WF_vars(StopFlag(1)) /\ WF_vars(StopKill(1))
    /\ WF_vars(StopDelete(1)) /\ WF_vars(StopEmit(1))

SpecSupervisorFair == SpecSupervisor /\ FairSupervisor

(***************************************************************************)
(* SpecBroadcast: messages are broadcast to clients whose queues are       *)
(* empty, partly filled or full, while clients drain them or disconnect    *)
(***************************************************************************)
\* the number of messages waiting in a client's queue at the start
QueueFill == {0, 1, sendCapacity - 1, sendCapacity}

\* a queue that holds n messages
Filled(c, n) == [i \in 1 .. n |-> Welcome(c)]

\* the messages that are broadcast
Broadcasts == {"channel_status", "server_stopping"}

InitBroadcast ==
    /\ InitServer
    /\ config = DefaultConfig
    /\ \E fill \in [{ClientOf(w) : w \in Workers} -> QueueFill] :
          clients = [c \in DOMAIN fill |-> [send |-> Filled(c, fill[c]), messageCount |-> 0]]
    /\ conn = [c \in {ClientOf(w) : w \in Workers} |-> Greeted]

NextBroadcast ==
    \/ \E message \in Broadcasts : Len(log) < MaxRequests /\ Broadcast(message)
    \/ \E w \in Workers : WritePump(ClientOf(w))
    \/ \E w \in Workers : UnregisterClient(ClientOf(w))

SpecBroadcast == InitBroadcast /\ [][NextBroadcast]_vars

(***************************************************************************)
(* SpecConnect: two clients connect, send queries and disconnect, while    *)
(* messages are broadcast and the write loops drain the queues             *)
(***************************************************************************)
InitConnect ==
    /\ InitServer
    /\ config = DefaultConfig
    /\ clients = <<>>
    /\ conn = <<>>

NextConnect ==
    \/ \E w \in Workers : HandleConnection(w)
    \/ \E w \in Workers : WelcomeSend(w)
    \/ \E w \in Workers, raw \in RawQueries :
          Reading(w) /\ Len(log) < MaxRequests /\ ReadPump(w, raw)
    \/ \E w \in Workers : Disconnect(w)
    \/ \E w \in Workers : UnregisterAgain(w)
    \/ \E message \in Broadcasts : Len(log) < MaxRequests /\ Broadcast(message)
    \/ \E w \in Workers : WritePump(ClientOf(w))

SpecConnect == InitConnect /\ [][NextConnect]_vars

(***************************************************************************)
(* SpecSend: SpecConnect with goroutines that call SendToClient            *)
(***************************************************************************)
\* Server.SendToClient: the client is looked up under s.mutex.RLock(),
\* which is released before the send
SendToClient(w, clientID) ==
    /\ wk[w].pc = "idle"
    /\ wk' = [wk EXCEPT ![w] = [IdleWorker EXCEPT
                                   !.pc = IF clientID \in DOMAIN clients
                                          THEN "send_send" ELSE "return",
                                   !.op = "send", !.client = clientID]]
    /\ emitted' = <<>>
    /\ lastCall' = NoCall
    /\ UNCHANGED <<channels, created, processes, procs, restarts, files, mon, config, written,
                   log, clients, conn>>

\* Server.SendToClient: select { case client.send <- message: ... default: ... };
\* a send on a closed channel panics
SendToClientSend(w) ==
    /\ wk[w].pc = "send_send"
    /\ IF conn[wk[w].client].closed > 0
       THEN /\ wk' = [wk EXCEPT ![w].pc = "panic"]
            /\ clients' = clients
       ELSE /\ wk' = [wk EXCEPT ![w].pc = "return"]
            /\ clients' = [clients EXCEPT ![wk[w].client] =
                              TrySend(@, [request |-> 0,
                                          response |-> Notification("channel_status")])]
    /\ log' = Append(log, Notification("channel_status"))
    /\ emitted' = <<>>
    /\ lastCall' = [NoCall EXCEPT !.op = "SendToClient", !.id = wk[w].client]
    /\ UNCHANGED <<channels, created, processes, procs, restarts, files, mon, config, written,
                   conn>>

NextSend ==
    \/ \E w \in Workers : HandleConnection(w)
    \/ \E w \in Workers : WelcomeSend(w)
    \/ \E w \in Workers, raw \in RawQueries :
          Reading(w) /\ Len(log) < MaxRequests /\ ReadPump(w, raw)
    \/ \E w \in Workers : Disconnect(w)
    \/ \E message \in Broadcasts : Len(log) < MaxRequests /\ Broadcast(message)
    \/ \E w \in Workers : WritePump(ClientOf(w))
    \/ \E w \in Workers, v \in Workers :
          Len(log) < MaxRequests /\ SendToClient(w, ClientOf(v))
    \/ \E w \in Workers : SendToClientSend(w)
    \/ \E w \in Workers : SupervisorReturn(w)

SpecSend == InitConnect /\ [][NextSend]_vars

(***************************************************************************)
(* SpecLock: two goroutines call the supervisor, each for a channel of its *)
(* own, and m.mutex is taken and released in separate steps                *)
(***************************************************************************)
\* a goroutine is inside startInternal: m.mutex.Lock() ... defer m.mutex.Unlock()
MutexHeld == \E w \in Workers : wk[w].pc = "start_locked"

\* StartWithFallback: m.mutex.Lock() at the top of startInternal
StartLock(w, channelID, inputPath, videoEncoder) ==
    /\ wk[w].pc = "idle"
    /\ ~MutexHeld
    /\ wk' = [wk EXCEPT ![w] = [IdleWorker EXCEPT !.pc = "start_locked", !.ch = channelID,
                                                   !.file = inputPath, !.enc = videoEncoder]]
    /\ emitted' = <<>>
    /\ lastCall' = NoCall
    /\ UNCHANGED <<channels, created, processes, procs, restarts, files, mon, config, written,
                   log, clients, conn>>

\* the body of startInternal (checks, probe, launch) and the deferred Unlock
StartLocked(w) ==
    /\ wk[w].pc = "start_locked"
    /\ startInternal(w, wk[w].ch, wk[w].file, wk[w].enc, TRUE, "return")
    /\ lastCall' = [NoCall EXCEPT !.op = "StartWithFallback", !.id = wk[w].ch,
                                  !.name = wk[w].enc]
    /\ UNCHANGED <<created, files, mon, config, log, clients, conn, written>>

\* Manager.Stop, first critical section: m.mutex.Lock()
LockedStopFlag(w) == ~MutexHeld /\ StopFlag(w)

\* Manager.Stop, second critical section: m.mutex.Lock()
LockedStopDelete(w) == ~MutexHeld /\ StopDelete(w)

\* monitorProcess: m.mutex.Lock()
LockedMonitorProcess == ~MutexHeld /\ MonitorProcess

\* a direct call of Manager.IsRunning: m.mutex.RLock()
LockedIsRunning(w, channelID) ==
    /\ wk[w].pc = "idle"
    /\ ~MutexHeld
    /\ \E running \in IsRunning(channelID) :
          lastCall' = [NoCall EXCEPT !.op = "IsRunning", !.id = channelID,
                                    !.name = IF running THEN "true" ELSE "false"]
    /\ emitted' = <<>>
    /\ UNCHANGED <<channels, created, processes, procs, wk, restarts, files, mon, config,
                   written, log, clients, conn>>

NextLock ==
    \/ \E w \in Workers, e \in Encoders :
          Len(procs) < MaxSessions /\ StartLock(w, NewID(w), Intro, e)
    \/ \E w \in Workers : StartLocked(w)
    \/ \E w \in Workers : SupervisorStop(w, NewID(w))
    \/ \E w \in Workers : LockedStopFlag(w)
    \/ \E w \in Workers : StopKill(w)
    \/ \E w \in Workers : LockedStopDelete(w)
    \/ \E w \in Workers : StopEmit(w)
    \/ \E w \in Workers : LockedIsRunning(w, NewID(w))
    \/ \E w \in Workers : SupervisorReturn(w)
    \/ ProcessExit \/ LockedMonitorProcess

SpecLock == InitConcurrent /\ [][NextLock]_vars

(***************************************************************************)
(* SpecInfo: goroutine 1 calls GetProcessInfo while goroutine 2 starts and *)
(* stops sessions and the monitor loops run; m.mutex is a sync.RWMutex: a  *)
(* Lock() that waits keeps new RLock() calls waiting, and is itself kept   *)
(* waiting by the read locks that are held                                 *)
(***************************************************************************)
ErrProcessNotFound == "proceso no encontrado"

\* goroutine w holds m.mutex.RLock() inside GetProcessInfo
ReadLocked(w) == wk[w].pc \in {"info_isrunning", "info_unlock"}

\* no read lock is held: a Lock() can be granted
NoReader == \A w \in Workers : ~ReadLocked(w)

\* a goroutine has called m.mutex.Lock() in Manager.Stop and waits for it
LockWaited == \E w \in Workers : wk[w].pc \in {"stop_flag", "stop_delete"}

\* Manager.GetProcessInfo(channelID) is called
GetProcessInfo(w, channelID) ==
    /\ wk[w].pc = "idle"
    /\ wk' = [wk EXCEPT ![w] = [IdleWorker EXCEPT !.pc = "info_rlock", !.op = "info",
                                                   !.ch = channelID]]
    /\ emitted' = <<>>
    /\ lastCall' = NoCall
    /\ UNCHANGED <<channels, created, processes, procs, restarts, files, mon, config, written,
                   log, clients, conn>>

\* GetProcessInfo: m.mutex.RLock() is granted and the entry is looked up
InfoRLock(w) ==
    /\ wk[w].pc = "info_rlock"
    /\ ~LockWaited
    /\ wk' = [wk EXCEPT ![w].pc = IF wk[w].ch \in DOMAIN processes
                                  THEN "info_isrunning" ELSE "info_return",
                        ![w].err = IF wk[w].ch \in DOMAIN processes
                                   THEN ErrNone ELSE ErrProcessNotFound]
    /\ emitted' = <<>>
    /\ lastCall' = NoCall
    /\ UNCHANGED <<channels, created, processes, procs, restarts, files, mon, config, written,
                   log, clients, conn>>

\* GetProcessInfo: IsRunning: m.IsRunning(channelID), which calls
\* m.mutex.RLock() again while the first read lock is held
InfoIsRunning(w) ==
    /\ wk[w].pc = "info_isrunning"
    /\ ~LockWaited
    /\ wk' = [wk EXCEPT ![w].pc = "info_unlock"]
    /\ emitted' = <<>>
    /\ lastCall' = NoCall
    /\ UNCHANGED <<channels, created, processes, procs, restarts, files, mon, config, written,
                   log, clients, conn>>

\* GetProcessInfo returns: the deferred m.mutex.RUnlock()
InfoReturn(w) ==
    /\ wk[w].pc \in {"info_unlock", "info_return"}
    /\ wk' = [wk EXCEPT ![w] = IdleWorker]
    /\ emitted' = <<>>
    /\ lastCall' = [NoCall EXCEPT !.op = "GetProcessInfo", !.id = wk[w].ch, !.err = wk[w].err]
    /\ UNCHANGED <<channels, created, processes, procs, restarts, files, mon, config, written,
                   log, clients, conn>>

NextInfo ==
    \/ \E c \in SupervisorChannels : GetProcessInfo(1, c)
    \/ InfoRLock(1) \/ InfoIsRunning(1) \/ InfoReturn(1)
    \/ \E c \in SupervisorChannels :
          /\ NoReader /\ Len(procs) < MaxSessions
          /\ SupervisorStart(2, c, Intro, "libx264", TRUE)
    \/ \E c \in SupervisorChannels : SupervisorStop(2, c)
    \/ NoReader /\ StopFlag(2)
    \/ StopKill(2)
    \/ NoReader /\ StopDelete(2)
    \/ StopEmit(2)
    \/ SupervisorReturn(2)
    \/ ProcessExit
    \/ NoReader /\ MonitorProcess

SpecInfo == InitConcurrent /\ [][NextInfo]_vars

(***************************************************************************)
(* SpecMutex: the order in which StartChannel, StopChannel, the monitor    *)
(* loop, the reconciler and attemptRestart take and release the mutex of   *)
(* the supervisor, the mutex of the registry and the log mutex             *)
(***************************************************************************)
SupervisorMutex == "ffmpegManager.mutex"
RegistryMutex == "channelManager.mutex"
LogMutex == "logMutex"

\* a critical section: the mutex is taken (Lock or RLock), then the
\* sections nested in it run, then it is released
Section(mutex, mode, nested) ==
    <<[op |-> mode, mutex |-> mutex]>> \o nested \o <<[op |-> "Unlock", mutex |-> mutex]>>

\* App.AddLog: a.logMutex.Lock() ... a.logMutex.Unlock()
AddLogSteps == Section(LogMutex, "Lock", <<>>)

\* channelManager.Get and GetAll: m.mutex.RLock(); defer m.mutex.RUnlock()
RegistryRead == Section(RegistryMutex, "RLock", <<>>)

\* channelManager.SetStatus: m.mutex.Lock(); defer m.mutex.Unlock()
RegistryWrite == Section(RegistryMutex, "Lock", <<>>)

\* onFFmpegEvent for a Stopped or an Error event: AddLog, then SetStatus
HandlerSets == AddLogSteps \o RegistryWrite

\* App.StartChannel: Get, StartWithFallback (the Warning and the Started
\* event are handled inside startInternal's critical section, each with one
\* AddLog), SetStatus, AddLog
StartPath(warned, launched) ==
    RegistryRead
    \o Section(SupervisorMutex, "Lock",
               (IF warned THEN AddLogSteps ELSE <<>>)
               \o (IF launched THEN AddLogSteps ELSE <<>>))
    \o RegistryWrite \o AddLogSteps

\* App.StopChannel: Get, Manager.Stop (two critical sections, then the
\* Stopped event outside them), SetStatus, AddLog
StopPath ==
    RegistryRead
    \o Section(SupervisorMutex, "Lock", <<>>) \o Section(SupervisorMutex, "Lock", <<>>)
    \o HandlerSets
    \o RegistryWrite \o AddLogSteps

\* monitorProcess after cmd.Wait(): the event is emitted inside m.mutex
MonitorPath(emits) ==
    Section(SupervisorMutex, "Lock", IF emits THEN HandlerSets ELSE <<>>)

\* variant: a reconciler that calls IsRunning and SetStatus inside the
\* registry's read lock
ReconcilerPath_Nested ==
    Section(RegistryMutex, "RLock", Section(SupervisorMutex, "RLock", <<>>) \o RegistryWrite)

\* monitorChannels for one active channel: GetAll, IsRunning, SetStatus
ReconcilerPath ==
    RegistryRead \o Section(SupervisorMutex, "RLock", <<>>) \o RegistryWrite

\* attemptRestart: Get, AddLog, StartChannel
RestartPath(warned, launched) == RegistryRead \o AddLogSteps \o StartPath(warned, launched)

LockPaths ==
    {StartPath(warned, launched) : warned \in BOOLEAN, launched \in BOOLEAN}
    \cup {StopPath, ReconcilerPath}
    \cup {MonitorPath(emits) : emits \in BOOLEAN}
    \cup {RestartPath(FALSE, launched) : launched \in BOOLEAN}

\* the next step of goroutine w asks for this mutex in this mode
Wants(w, mutex, mode) ==
    /\ wk[w].steps # <<>>
    /\ Head(wk[w].steps) = [op |-> mode, mutex |-> mutex]

\* sync.RWMutex: Lock() is granted when nobody holds the mutex; RLock() is
\* granted when nobody holds it for writing and no Lock() waits
Granted(w, step) ==
    CASE step.op = "Lock" ->
            \A v \in Workers : \A h \in wk[v].held : h[1] # step.mutex
      [] step.op = "RLock" ->
            /\ \A v \in Workers : <<step.mutex, "Lock">> \notin wk[v].held
            /\ \A v \in Workers \ {w} : ~Wants(v, step.mutex, "Lock")
      [] OTHER -> TRUE

\* a goroutine starts one of the operations
LockCall(w, path) ==
    /\ wk[w].pc = "idle"
    /\ wk' = [wk EXCEPT ![w] = [IdleWorker EXCEPT !.pc = "locks", !.steps = path]]
    /\ emitted' = <<>>
    /\ lastCall' = NoCall
    /\ UNCHANGED <<channels, created, processes, procs, restarts, files, mon, config, written,
                   log, clients, conn>>

\* the goroutine takes or releases the next mutex of its operation
LockStep(w) ==
    /\ wk[w].pc = "locks"
    /\ LET step == Head(wk[w].steps)
           rest == Tail(wk[w].steps)
           held == IF step.op = "Unlock"
                   THEN {h \in wk[w].held : h[1] # step.mutex}
                   ELSE wk[w].held \cup {<<step.mutex, step.op>>}
       IN  /\ Granted(w, step)
           /\ wk' = [wk EXCEPT ![w] = IF rest = <<>> THEN IdleWorker
                                      ELSE [@ EXCEPT !.steps = rest, !.held = held]]
    /\ emitted' = <<>>
    /\ lastCall' = NoCall
    /\ UNCHANGED <<channels, created, processes, procs, restarts, files, mon, config, written,
                   log, clients, conn>>

NextMutex ==
    \/ \E w \in Workers, path \in LockPaths : LockCall(w, path)
    \/ \E w \in Workers : LockStep(w)

SpecMutex == InitConcurrent /\ [][NextMutex]_vars

(***************************************************************************)
(* SpecEvents: a client plays and stops a channel of the GUI while the     *)
(* supervisor reports events of every type for known and unknown channels  *)
(***************************************************************************)
EventTypes == {EventStarted, EventStopped, EventError, EventProgress, EventWarning}

\* Manager.emitEvent called by the supervisor with one event
EmitEvent(type, channelID, message) ==
    /\ Emit(<<Event(type, channelID, message)>>)
    /\ lastCall' = NoCall
    /\ UNCHANGED <<created, processes, procs, wk, files, mon, config, written, log, clients, conn>>

NextEvents ==
    \/ \E label \in GuiLabels : AppAddChannel(label)
    \/ \E raw \in ChannelMessages :
          Requests < MaxRequests /\ Addressed(raw) /\ ReadPump(1, raw)
    \/ StopSteps(1) \/ PlaySteps(1)
    \/ ProcessExit \/ MonitorProcess
    \/ \E type \in EventTypes, c \in IDs \cup {UnknownID}, message \in {ExitFatal, LineDisconnect} :
          EmitEvent(type, c, message)

SpecEvents == InitConcurrent /\ [][NextEvents]_vars

(***************************************************************************)
(* SpecStopAll: the GUI stops all streams while no Start is under way:     *)
(* sessions are started by a client's requests and by direct calls only    *)
(* while StopAllStreams does not run, and StopAllStreams begins only when  *)
(* no request is being handled; processes exit, write to stderr and are    *)
(* reaped at any time                                                      *)
(***************************************************************************)
\* goroutine 2 serves the GUI's StopAllStreams
StopAllSteps(w) ==
    \/ StopAllIDs(w) \/ StopAllNext(w) \/ StopAllStatus(w) \/ StopAllReturn(w)
    \/ StopFlag(w) \/ StopKill(w) \/ StopDelete(w) \/ StopEmit(w)

NextStopAll ==
    \/ \E label \in GuiLabels : AppAddChannel(label)
    \/ \E raw \in ChannelMessages :
          /\ Free(2) /\ Len(procs) < MaxSessions /\ Requests < MaxRequests
          /\ Addressed(raw) /\ ReadPump(1, raw)
    \/ Free(2) /\ Len(procs) < MaxSessions
          /\ SupervisorStart(1, NewID(2), Intro, "libx264", TRUE)
    \/ SupervisorReturn(1)
    \/ StopSteps(1) \/ PlaySteps(1)
    \/ Free(1) /\ StopAllStreams(2)
    \/ StopAllSteps(2)
    \/ ProcessExit \/ MonitorProcess
    \/ WriteLine \/ ParseProgress

SpecStopAll == InitConcurrent /\ [][NextStopAll]_vars

(***************************************************************************)
(* SpecRemove: the GUI removes a channel while a client's requests for it  *)
(* are handled; automatic restart switched off in the configuration        *)
(***************************************************************************)
NextRemove ==
    \/ \E label \in GuiLabels : AppAddChannel(label)
    \/ \E raw \in ChannelMessages :
          Requests < MaxConcurrentRequests /\ Addressed(raw) /\ ReadPump(1, raw)
    \/ \E id \in IDs \cup {UnknownID} :
          Requests < MaxConcurrentRequests /\ RemoveChannel(2, id)
    \/ RemoveChannelRemove(2)
    \/ \E w \in Workers : StopSteps(w) \/ PlaySteps(w)
    \/ ProcessExit \/ MonitorProcess

SpecRemove == InitConcurrent /\ [][NextRemove]_vars

(***************************************************************************)
(* SpecConcurrent: two clients whose requests are handled concurrently,    *)
(* automatic restart switched off in the configuration                     *)
(***************************************************************************)
NextConcurrent ==
    \/ \E w \in Workers, channelId \in IDs \cup {""} :
          /\ Requests < MaxConcurrentRequests
          /\ HandlePlayVideoRequest(w, ClientOf(w), channelId, Intro)
    \/ \E w \in Workers, id \in IDs :
          Requests < MaxConcurrentRequests /\ HandleStopRequest(w, ClientOf(w), id)
    \/ \E w \in Workers : StopSteps(w) \/ PlaySteps(w)
    \/ ProcessExit \/ MonitorProcess

SpecConcurrent == InitConcurrent /\ [][NextConcurrent]_vars

(***************************************************************************)
(* Registry properties                                                     *)
(***************************************************************************)
\* the stream name an Add call asks for
EffectiveName(label, name) == IF name = "" THEN "STREAM_" \o label ELSE name

IsAddCall == lastCall'.op = "Add"
IsUpdateCall == lastCall'.op = "Update"

NamesUnique ==
    \A i, j \in IDs : i # j => channels[i].SRTStreamName # channels[j].SRTStreamName

\* C1 as stated: every Add whose (explicit or derived) stream name is already
\* held, and every Update of another channel to a held name, fails with the
\* duplicate-name error and leaves the registry unchanged.
C1_Original ==
    [][/\ (IsAddCall /\ NameInUse(channels, EffectiveName(lastCall'.label, lastCall'.name)))
            => (lastCall'.err = ErrNameInUse /\ channels' = channels)
       /\ (IsUpdateCall /\ lastCall'.id \in IDs
              /\ NameInUseByOther(channels, lastCall'.id, lastCall'.name))
            => (lastCall'.err = ErrSRTNameInUse /\ channels' = channels)]_vars

\* C1 amended: an Add with a non-empty label whose (explicit or derived) stream
\* name is already held fails with the duplicate-name error; an Add with an
\* empty label fails with the empty-label error whatever its name; an Update of
\* another channel to a held name fails with the duplicate-name error; in all
\* three cases the registry is unchanged, and no two registered channels ever
\* share a stream name.
C1_DuplicateName ==
    /\ []NamesUnique
    /\ [][/\ (IsAddCall /\ lastCall'.label # ""
                /\ \E i \in IDs : channels[i].SRTStreamName
                                    = EffectiveName(lastCall'.label, lastCall'.name))
               => (lastCall'.err = ErrNameInUse /\ channels' = channels)
          /\ (IsAddCall /\ lastCall'.label = "")
               => (lastCall'.err = ErrEmptyLabel /\ channels' = channels)
          /\ (IsUpdateCall /\ lastCall'.id \in IDs
                /\ \E i \in IDs : i # lastCall'.id
                                    /\ channels[i].SRTStreamName = lastCall'.name)
               => (lastCall'.err = ErrSRTNameInUse /\ channels' = channels)]_vars

\* an Add was just rejected for a derived name that an explicit name already holds
C1_Witness ==
    /\ lastCall.op = "Add" /\ lastCall.err = ErrNameInUse
    /\ lastCall.name = "" /\ lastCall.label = "A"
    /\ \E i \in IDs : channels[i].SRTStreamName = "STREAM_A"

\* position of a channel in the order of creation
AddIndex(id) == CHOOSE k \in 1 .. Len(created) : created[k] = id

\* C2: the ports of the registered channels are pairwise distinct, and a channel
\* added later never has a smaller port than one added earlier.
C2_PortsDistinctMonotone ==
    /\ \A i, j \in IDs : i # j => channels[i].SRTPort # channels[j].SRTPort
    /\ \A i, j \in IDs : AddIndex(i) < AddIndex(j) => channels[i].SRTPort <= channels[j].SRTPort

\* two channels are registered after an earlier one was removed
C2_Witness ==
    /\ Cardinality(IDs) >= 2
    /\ Len(created) > Cardinality(IDs)
    /\ lastCall.op = "Add" /\ lastCall.err = ErrNone

\* C3: a successful Add assigns 9000 when no registered channel has a port of
\* 9000 or more and otherwise one more than the largest registered port; the
\* port it assigns is held by no registered channel.
C3_NextPort ==
    [][(IsAddCall /\ lastCall'.err = ErrNone) =>
          /\ lastCall'.id \in DOMAIN channels'
          /\ lastCall'.port = channels'[lastCall'.id].SRTPort
          /\ (\A i \in IDs : channels[i].SRTPort < basePort) => lastCall'.port = basePort
          /\ (\E i \in IDs : channels[i].SRTPort >= basePort) =>
                \E i \in IDs : /\ lastCall'.port = channels[i].SRTPort + 1
                               /\ \A j \in IDs : channels[j].SRTPort <= channels[i].SRTPort
          /\ \A i \in IDs : channels[i].SRTPort # lastCall'.port]_vars

\* a later Add was given port 9000 again after the first channel was removed
C3_Witness ==
    /\ lastCall.op = "Add" /\ lastCall.err = ErrNone /\ lastCall.port = basePort
    /\ Len(created) >= 2 /\ lastCall.id = created[Len(created)]
    /\ created[1] \notin IDs

(***************************************************************************)
(* Supervisor and event-handling properties                                *)
(***************************************************************************)
\* C4 as stated: at every moment every channel id has at most one live
\* transcoding process, whatever the interleaving of the requests that start
\* and stop its session and of the process exits.
C4_OneLiveProcess == \A c \in IDs : Cardinality(Live(c)) <= 1

\* the step completes the handling of process p's exit by monitorProcess
MonitorHandles(p) == ~procs[p].waited /\ procs'[p].waited

\* the Error events the step hands to App.onFFmpegEvent
ErrorEvents(events) == {k \in DOMAIN events : events[k].Type = EventError}

\* the messages the transcoder produces when the SRT peer goes away
TransportDisconnects == {ExitDisconnect, LineDisconnect}

\* the requests answered so far are a successful play_video that started
\* channel c followed by a stop of channel c, and nothing is being handled
StartedThenStopped(c) ==
    /\ Len(log) >= 2
    /\ \A w \in Workers : wk[w].pc = "idle"
    /\ LET start == log[Len(log) - 1]
           stop == log[Len(log)]
       IN  /\ start.request = "play_video" /\ start.success /\ start.data.channelId = c
           /\ stop.request = "stop" /\ stop.success /\ stop.channelId = c

\* C5 as stated: once a successful Start of a channel has been followed by a
\* Stop of the same channel, the channel is Inactive and the Supervisor table
\* has no entry for it, however the process exit, the monitor loop and the
\* output classifier were interleaved with the Stop.
C5_StartStopEndsInactive ==
    \A c \in IDs :
        StartedThenStopped(c) =>
            channels[c].Status = StatusInactive /\ c \notin DOMAIN processes

\* C6: when monitorProcess handles the exit of a process whose session Stop
\* has flagged as intentionally stopped, it hands no Error event to the
\* application and the channel does not move to Error, whatever the exit code.
C6_StoppedExitSilent ==
    [][\A p \in DOMAIN procs :
          (procs[p].stopped /\ MonitorHandles(p)) =>
              /\ ErrorEvents(emitted') = {}
              /\ \A c \in IDs : channels'[c].Status = StatusError
                                   => channels[c].Status = StatusError]_vars

\* a Stop has flagged a session whose table entry it has not deleted yet, and
\* monitorProcess has since handled the exit of that session's process
C6_Witness ==
    \E w \in Workers :
        /\ wk[w].pc \in {"stop_kill", "stop_delete"}
        /\ wk[w].ch \in DOMAIN processes
        /\ processes[wk[w].ch] = wk[w].proc
        /\ procs[wk[w].proc].waited

\* C7: an Error event whose message is a transport disconnect leaves the
\* channel Inactive, does not change its error counter and schedules no
\* restart attempt.
C7_DisconnectBenign ==
    [][\A k \in ErrorEvents(emitted') :
          (emitted'[k].Message \in TransportDisconnects /\ emitted'[k].ChannelID \in IDs) =>
              LET c == emitted'[k].ChannelID
              IN  /\ channels'[c].Status = StatusInactive
                  /\ channels'[c].ErrorCount = channels[c].ErrorCount
                  /\ restarts' = restarts]_vars

\* the exit code of a dropped SRT peer was just reported for an active channel,
\* which is now Inactive
C7_Witness ==
    \E k \in ErrorEvents(emitted) :
        /\ emitted[k].Message = ExitDisconnect
        /\ emitted[k].ChannelID \in IDs
        /\ channels[emitted[k].ChannelID].Status = StatusInactive
        /\ \E i \in DOMAIN log : log[i].action = "play_started"

\* C8 as stated: an Error event whose message is no transport disconnect moves
\* the channel to Error, adds one to its error counter and leaves the message
\* on the channel.
C8_FatalErrorRecorded ==
    [][\A k \in ErrorEvents(emitted') :
          (emitted'[k].Message \notin TransportDisconnects /\ emitted'[k].ChannelID \in IDs) =>
              LET c == emitted'[k].ChannelID
              IN  /\ channels'[c].Status = StatusError
                  /\ channels'[c].ErrorCount = channels[c].ErrorCount + 1
                  /\ channels'[c].ErrorMessage = emitted'[k].Message]_vars

(***************************************************************************)
(* Control-protocol properties                                             *)
(***************************************************************************)
\* the step answers a request, and this is the answer
Answers == Len(log') = Len(log) + 1
Answer == log'[Len(log')]

\* registry and session state
engineState == <<channels, created, processes, procs, restarts>>

C10_PathValidated ==
    [][/\ (Answers /\ Answer.request = "play_video" /\ Answer.filePath = "") =>
             /\ ~Answer.success /\ Answer.action = "missing_file_path"
             /\ UNCHANGED engineState
       /\ (Answers /\ Answer.request = "play_video" /\ Answer.filePath # ""
                   /\ Answer.filePath \notin files) =>
             /\ ~Answer.success /\ Answer.action = "file_not_found"
             /\ UNCHANGED engineState
       /\ \A w \in Workers : wk'[w].op = "play_video" => wk'[w].file \in files]_vars

\* a play_video for a missing file, addressed to the channel of a running
\* session, was just answered with file_not_found
C10_Witness ==
    /\ Len(log) = 2
    /\ log[2].request = "play_video" /\ log[2].action = "file_not_found"
    /\ log[2].filePath = MissingPath /\ log[2].channelId \in IDs
    /\ log[1].action = "play_started"
    /\ Live(log[2].channelId) # {}


PlayAnswers(w) == wk[w].pc = "play_status" /\ wk'[w].pc = "idle"

ClientLabel(client) == "Client_" \o client

\* the registered channels that carry this label
Labelled(chs, label) == {i \in DOMAIN chs : chs[i].Label = label}

\* s begins with prefix
HasPrefix(s, prefix) == Len(s) >= Len(prefix) /\ SubSeq(s, 1, Len(prefix)) = prefix

\* C12: a play_video request without channelId creates a channel, labelled
\* "Client_"+clientId, only if the client has none, and is handled on the
\* client's channel otherwise; no client ever has two channels; a channel
\* created on an empty registry has port 9000 and a stream name that begins
\* with the configured prefix, and the response reports that port and name.
C12_ClientChannel ==
    /\ [](\A w \in Workers : Cardinality(Labelled(channels, ClientLabel(ClientOf(w)))) <= 1)
    /\ [](Len(created) <= Cardinality({ClientOf(w) : w \in Workers}))
    /\ [][/\ IsAddCall =>
                /\ Labelled(channels, lastCall'.label) = {}
                /\ \E w \in Workers : lastCall'.label = ClientLabel(ClientOf(w))
                /\ (lastCall'.err = ErrNone /\ IDs = {}) =>
                       /\ lastCall'.port = basePort
                       /\ HasPrefix(channels'[lastCall'.id].SRTStreamName, config.SRTPrefix)
          /\ (Answers /\ Answer.request = "play_video" /\ Answer.channelId = ""
                      /\ Answer.filePath \in files) =>
                /\ Answer.action # "channel_create_error"
                /\ Answer.success =>
                       /\ Answer.data.channelId \in Labelled(channels, ClientLabel(Answer.client))
                       /\ Answer.data.srtPort = channels[Answer.data.channelId].SRTPort
                       /\ Answer.data.streamName = channels[Answer.data.channelId].SRTStreamName
          ]_vars

\* the client's second play_video without channelId was just answered on the
\* channel that its first one created, the only channel ever created
C12_Witness ==
    /\ Len(log) = 2
    /\ log[1].action = "play_started" /\ log[1].channelId = ""
    /\ log[2].action = "play_started" /\ log[2].channelId = ""
    /\ log[1].data.channelId = log[2].data.channelId
    /\ log[2].data.srtPort = basePort
    /\ Len(created) = 1

\* the step in which goroutine w takes up a request
TakesUp(w) == wk[w].pc = "idle" /\ wk'[w].pc # "idle"

\* C13: a play_video request that names a registered channel is handled on
\* that channel and creates none; the step that stores the new path changes
\* nothing but the channel's currentFile; the response reports the channel's
\* port; and no step of a play, stop, status, restart or reconciliation changes
\* the port or the stream name of a registered channel.
C13_ExistingChannelKept ==
    [][/\ \A c \in IDs : c \in DOMAIN channels' =>
             /\ channels'[c].SRTPort = channels[c].SRTPort
             /\ channels'[c].SRTStreamName = channels[c].SRTStreamName
       /\ \A w \in Workers :
             /\ (TakesUp(w) /\ wk'[w].op = "play_video" /\ wk'[w].req \in IDs) =>
                    wk'[w].ch = wk'[w].req /\ created' = created /\ channels' = channels
             /\ (wk[w].pc = "play_setfile" /\ wk'[w].pc = "play_start"
                    /\ wk[w].op = "play_video" /\ wk[w].req \in IDs) =>
                    channels' = [channels EXCEPT ![wk[w].req].CurrentFile = wk[w].file]
       /\ (Answers /\ Answer.request = "play_video" /\ Answer.channelId \in IDs) =>
             /\ created' = created
             /\ Answer.filePath \in files =>
                    Answer.action \notin {"channel_not_found", "channel_create_error"}
             /\ Answer.success =>
                    /\ Answer.data.channelId = Answer.channelId
                    /\ Answer.data.srtPort = channels[Answer.channelId].SRTPort
                    /\ Answer.data.streamName = channels[Answer.channelId].SRTStreamName
      ]_vars

\* a second play_video for the channel the GUI created was just answered: it
\* plays the other file, on the port the channel got when it was added
C13_Witness ==
    /\ Len(log) = 2 /\ Len(created) = 1
    /\ log[1].action = "play_started" /\ log[1].channelId = created[1]
    /\ log[1].filePath = Intro
    /\ log[2].action = "play_started" /\ log[2].channelId = created[1]
    /\ log[2].filePath = Outro
    /\ log[2].data.srtPort = basePort
    /\ created[1] \in IDs
    /\ channels[created[1]].CurrentFile = Outro
    /\ channels[created[1]].Label = "A"

\* the request just answered names a channel the registry does not hold: for
\* play_video a channelId that is neither an id nor a label, for play, status
\* and list_files a channelId that is no id
NamesUnknownChannel(r) ==
    /\ r.channelId \notin IDs
    /\ \/ r.request \in {"play", "list_files"}
       \/ r.request = "status" /\ r.channelId # ""
       \/ r.request = "play_video" /\ r.channelId # "" /\ Labelled(channels, r.channelId) = {}

HandledActions == {"play_video", "play", "stop", "status", "list_channels", "list_files"}

\* the texts a client sends in any of the specifications
Texts == RawMessages \cup RawQueries \cup ChannelMessages

\* the read loop of goroutine w took one message: the count of its client grew
Reads(w) == clients'[ClientOf(w)].messageCount = clients[ClientOf(w)].messageCount + 1

\* responses on the queue of the client of w, the welcome message aside, plus
\* the request its read loop is still handling
Accounted(w) ==
    Len(clients[ClientOf(w)].send) - 1
        + (IF wk[w].pc # "idle" /\ wk[w].client = ClientOf(w) THEN 1 ELSE 0)

\* C15 as stated: a message that is not parseable JSON is answered with the
\* error invalid_message and changes no state.
C15_Original ==
    [][\A w \in Workers : \A raw \in Texts :
          (Reads(w) /\ ReadPump(w, raw) /\ ~Unmarshal(raw).ok) =>
              /\ Answers /\ Answer.action = "invalid_message"
              /\ UNCHANGED engineState]_vars

\* C15 amended: every inbound message yields exactly one response envelope.
\* A message whose text from its first "{" on (the whole text when it has no
\* "{" or starts with it) is not parseable as a JSON envelope is answered with
\* invalid_message; otherwise the action field of that text chooses: the six
\* known actions go to their handlers, any other action is answered with
\* unknown_action. invalid_message and unknown_action change no state.
C15_Dispatch ==
    [][/\ \A w \in Workers :
             /\ Accounted(w) = clients[ClientOf(w)].messageCount
             /\ Accounted(w)' = clients'[ClientOf(w)].messageCount
       /\ Len(log') <= Len(log) + 1
       /\ \A w \in Workers : \A raw \in Texts :
             (Reads(w) /\ ReadPump(w, raw)) =>
                 LET p == ParsedMessage[raw] IN
                 /\ ~p.ok =>
                       /\ Answers /\ Answer.action = "invalid_message"
                       /\ ~Answer.success /\ Answer.client = ClientOf(w)
                       /\ UNCHANGED <<engineState, wk>>
                 /\ (p.ok /\ p.msg.Action \notin HandledActions) =>
                       /\ Answers /\ Answer.action = "unknown_action"
                       /\ ~Answer.success /\ Answer.client = ClientOf(w)
                       /\ UNCHANGED <<engineState, wk>>
                 /\ (p.ok /\ p.msg.Action \in HandledActions) =>
                       \/ /\ Answers /\ Answer.request = p.msg.Action
                          /\ Answer.client = ClientOf(w)
                          /\ Answer.action \notin {"invalid_message", "unknown_action"}
                          /\ UNCHANGED wk
                       \/ /\ ~Answers /\ TakesUp(w)
                          /\ wk'[w].op = p.msg.Action
                          /\ wk'[w].client = ClientOf(w)]_vars

\* with a channel registered, a message with an unknown action and then a
\* text that is no JSON were read and answered, one response each
C15_Witness ==
    /\ Len(log) = 2
    /\ log[1].action = "unknown_action" /\ log[1].request = "restart"
    /\ log[2].action = "invalid_message"
    /\ IDs # {}
    /\ clients[ClientOf(1)].messageCount = 2
    /\ Len(clients[ClientOf(1)].send) = 3

\* some registered channel's status differs before and after the step
StatusChanges ==
    \E c \in IDs : c \in DOMAIN channels' /\ channels'[c].Status # channels[c].Status

\* C16: whenever an operation changes a channel's status, a notification is
\* enqueued to every connected control-protocol client, not only to the
\* client that made the request.
C16_Broadcast ==
    [][StatusChanges =>
          \A c \in DOMAIN clients : Len(clients'[c].send) > Len(clients[c].send)]_vars

\* the responses of the log that answer requests of this client
AnswersTo(client) == SelectSeq(log, LAMBDA r : r.client = client)

\* C17: the response to a request is enqueued only on the queue of the
\* connection that sent it, never on another client's queue, and the
\* responses to one connection's requests are enqueued in the order in which
\* the requests were read.
C17_OwnQueueInOrder ==
    \A c \in DOMAIN clients :
        LET send == clients[c].send IN
        /\ send[1] = Welcome(c)
        /\ Len(send) = Len(AnswersTo(c)) + 1
        /\ \A i \in 2 .. Len(send) :
              /\ send[i].response = AnswersTo(c)[i - 1]
              /\ send[i].response.client = c
              /\ send[i].request = i - 1
              /\ send[i].request <= clients[c].messageCount

\* the second client's query was answered before the play_video of the first
\* client, and each response is on its sender's queue
C17_Witness ==
    /\ Len(log) = 2
    /\ log[1].client = ClientOf(2) /\ log[1].request = "status"
    /\ log[2].client = ClientOf(1) /\ log[2].action = "play_started"
    /\ Len(clients[ClientOf(1)].send) = 2
    /\ Len(clients[ClientOf(2)].send) = 2

\* no goroutine is inside a request or a GUI call
Quiescent == \A w \in Workers : wk[w].pc = "idle"

\* C18: once RemoveChannel has returned and the requests that ran beside it
\* are done, the process table holds no session, and no process is alive,
\* for a channel id that is not in the registry.
C18_NoSessionForRemoved ==
    Quiescent =>
        /\ \A c \in DOMAIN processes : c \in IDs
        /\ \A p \in DOMAIN procs : procs[p].alive => procs[p].ch \in IDs

\* goroutine w is inside Manager.Stop, past the first critical section and
\* before the second
Stopping(w) == wk[w].pc \in {"stop_kill", "stop_delete"}

\* C19: Stop(id) for an id without a session returns without an error, emits
\* no event and leaves the process table unchanged; Stop(id) for an id with
\* a session sets the stopped flag before it cancels the process, and the
\* entry of id stays in the table from then until this Stop deletes it
\* after the kill and the grace periods.
C19_StopKeepsEntry ==
    [][\A w \in Workers :
          /\ (wk[w].pc = "stop_flag" /\ wk'[w] # wk[w] /\ wk[w].ch \notin DOMAIN processes) =>
                /\ wk'[w].pc = wk[w].after
                /\ emitted' = <<>>
                /\ UNCHANGED <<processes, procs, channels>>
          /\ (wk[w].pc = "stop_flag" /\ wk'[w] # wk[w] /\ wk[w].ch \in DOMAIN processes) =>
                LET p == processes[wk[w].ch] IN
                /\ procs'[p].stopped
                /\ procs'[p].alive = procs[p].alive
                /\ processes' = processes
          /\ Stopping(w) => wk[w].ch \in DOMAIN processes
          /\ Stopping(w)' => wk'[w].ch \in DOMAIN processes'
          /\ (wk[w].pc = "stop_delete" /\ wk'[w] # wk[w]) =>
                /\ ~procs[wk[w].proc].alive
                /\ wk[w].ch \notin DOMAIN processes']_vars

\* an attemptRestart goroutine has finished its backoff in this step
RestartAttempted ==
    \E c \in DOMAIN restarts :
        restarts[c] > (IF c \in DOMAIN restarts' THEN restarts'[c] ELSE 0)

\* goroutine w enters the start path for a restart in this step
RestartTaken(w) == wk[w].op # "restart" /\ wk'[w].op = "restart"

\* C20: a restart attempt enters the start path only if the channel it
\* re-reads after the backoff exists, is in Error and has a non-empty source
\* path (VideoPath, else CurrentFile) that names an existing file; the
\* attempt itself changes no channel, session or process, and an attempt
\* that does not enter the start path changes nothing else either. A
\* channel that a client stopped or played again during the backoff is
\* inactive or active and so is not restarted.
C20_RestartGuard ==
    [][/\ \A w \in Workers :
             RestartTaken(w) =>
                 LET c == wk'[w].ch IN
                 /\ RestartAttempted
                 /\ c \in IDs
                 /\ channels[c].Status = StatusError
                 /\ InputPath(channels[c]) # ""
                 /\ InputPath(channels[c]) \in files
                 /\ wk'[w].file = InputPath(channels[c])
                 /\ wk'[w].pc = "start_start"
       /\ RestartAttempted =>
             /\ UNCHANGED <<channels, created, processes, procs, log, clients, conn>>
             /\ (\A w \in Workers : ~RestartTaken(w)) => wk' = wk
       /\ \A w \in Workers :
             (wk[w].op = "restart" /\ Len(procs') > Len(procs)) =>
                 procs'[Len(procs')].ch = wk[w].ch]_vars

\* a restart attempt has entered the start path and launched a process for
\* its channel, whose status is still error
C20_Witness ==
    \E w \in Workers :
        /\ wk[w].op = "restart" /\ wk[w].pc = "start_status" /\ wk[w].err = ErrNone
        /\ wk[w].ch \in DOMAIN processes
        /\ procs[processes[wk[w].ch]].alive
        /\ channels[wk[w].ch].Status = StatusError

\* the sessions ever launched for channel c
Sessions(c) == {p \in DOMAIN procs : procs[p].ch = c}

\* C21: each failed session schedules exactly one restart attempt, so the
\* restart attempts pending for a channel never outnumber the sessions that
\* were launched for it.
C21_OneRestartPerFailure ==
    \A c \in DOMAIN restarts : restarts[c] <= Cardinality(Sessions(c))

\* the Supervisor holds a session for c whose process is running
SessionRunning(c) == c \in DOMAIN processes /\ procs[processes[c]].alive

\* the reconciliation loop writes a status in this step
Reconciles == mon.set # "" /\ mon'.set = "" /\ channels' # channels

\* C22: the reconciliation loop changes the status of a channel only if the
\* channel is Active and the Supervisor has no running session for it; it
\* never changes the status of a channel that is not Active or whose
\* session is running.
C22_ReconcilerOnlyMismatch ==
    [][Reconciles =>
          /\ channels[mon.set].Status = StatusActive
          /\ ~SessionRunning(mon.set)]_vars

\* cmd.Wait() of session p returns in this step: its monitor loop acts
MonitorActs(p) == ~procs[p].alive /\ ~procs[p].waited /\ procs'[p].waited

\* C23: when the process of a session exits without the stopped flag, its
\* monitor loop emits exactly one terminal event (Stopped on a clean exit,
\* Error otherwise) and deletes the entry of that session; when the flag is
\* set it emits no event and deletes nothing.
C23_OneTerminalEvent ==
    [][\A p \in DOMAIN procs :
          MonitorActs(p) =>
              IF procs[p].stopped
              THEN emitted' = <<>> /\ processes' = processes
              ELSE /\ Len(emitted') = 1
                   /\ emitted'[1].ChannelID = procs[p].ch
                   /\ emitted'[1].Type =
                         IF procs[p].exit = ExitClean THEN EventStopped ELSE EventError
                   /\ procs[p].ch \in DOMAIN processes
                   /\ processes[procs[p].ch] = p
                   /\ processes' = MapDel(processes, procs[p].ch)]_vars

\* Manager.Start or Manager.StartWithFallback returns in this step
IsStartCall == lastCall'.op \in {"Start", "StartWithFallback"}

\* the events of kind type among the events of a step
OfType(events, type) == SelectSeq(events, LAMBDA e : e.Type = type)

IsBroadcast == lastCall'.op = "Broadcast"

\* C25: Broadcast never blocks: whatever the number of clients and the
\* occupancy of their queues, it completes; the message is appended to
\* every queue that holds fewer than 256 messages, and a full queue, like
\* the set of clients, is left as it is.
C25_BroadcastNeverBlocks ==
    [][/\ \A message \in Broadcasts : ENABLED Broadcast(message)
       /\ IsBroadcast =>
             /\ DOMAIN clients' = DOMAIN clients
             /\ \A c \in DOMAIN clients :
                   /\ clients'[c].messageCount = clients[c].messageCount
                   /\ Len(clients'[c].send) <= sendCapacity
                   /\ IF Len(clients[c].send) < sendCapacity
                      THEN clients'[c].send =
                              Append(clients[c].send,
                                     [request |-> 0,
                                      response |-> Notification(lastCall'.name)])
                      ELSE clients'[c].send = clients[c].send]_vars

\* a broadcast has just been dropped for one client whose queue is full and
\* enqueued for the other
C25_Witness ==
    /\ lastCall.op = "Broadcast"
    /\ DOMAIN clients = {ClientOf(1), ClientOf(2)}
    /\ Len(clients[ClientOf(1)].send) = sendCapacity
    /\ clients[ClientOf(1)].send[sendCapacity] = Welcome(ClientOf(1))
    /\ Len(clients[ClientOf(2)].send) = 2
    /\ clients[ClientOf(2)].send[2].response = Notification(lastCall.name)

\* C26: no lock serializes unrelated channels: while a Start for one
\* channel is in progress, a Stop and an IsRunning for another channel can
\* take their next step without waiting for that Start to finish.
C26_NoGlobalLock ==
    \A w \in Workers :
        wk[w].pc = "start_locked" =>
            \A v \in Workers \ {w} :
                /\ wk[v].pc = "stop_flag" => ENABLED LockedStopFlag(v)
                /\ wk[v].pc = "stop_delete" => ENABLED LockedStopDelete(v)
                /\ wk[v].pc = "idle" => ENABLED LockedIsRunning(v, NewID(v))

\* the table holds an entry for c whose process has exited
DeadEntry(c) == c \in DOMAIN processes /\ ~procs[processes[c]].alive

\* C27: under fair scheduling of the monitor loops and of a Stop in
\* progress, an entry whose process has exited is eventually removed from
\* the process table, so that it does not block a later Start of the
\* channel forever.
C27_DeadEntryRemoved ==
    \A c \in SupervisorChannels : DeadEntry(c) ~> ~DeadEntry(c)

\* the monitor loop of a session that exited by itself has just emitted its
\* terminal event and removed the entry
C27_Witness ==
    /\ Len(emitted) = 1
    /\ emitted[1].Type \in {EventStopped, EventError}
    /\ emitted[1].ChannelID \notin DOMAIN processes
    /\ \E p \in DOMAIN procs :
          procs[p].ch = emitted[1].ChannelID /\ ~procs[p].alive /\ procs[p].waited

\* the channels that the events of the step name in a Stopped or Error event
NamedTerminal(events) ==
    {events[k].ChannelID : k \in {i \in DOMAIN events :
                                     events[i].Type \in {EventStopped, EventError}}}

\* C28: Started, Warning and Progress events change no channel's status or
\* other registry field; a Stopped or Error event changes no channel but
\* the one it names, and no event adds or removes a channel.
C28_EventFrame ==
    [][emitted' # <<>> =>
          /\ DOMAIN channels' = DOMAIN channels
          /\ created' = created
          /\ \A c \in IDs :
                channels'[c] # channels[c] => c \in NamedTerminal(emitted')]_vars

\* a Warning event has just been reported for a registered channel that is
\* active, and the channel is still active
C28_Witness ==
    /\ Len(emitted) = 1
    /\ emitted[1].Type = EventWarning
    /\ emitted[1].ChannelID \in IDs
    /\ channels[emitted[1].ChannelID].Status = StatusActive
    /\ emitted[1].ChannelID \in DOMAIN processes

\* the errors with which startInternal rejects a call before it launches
Rejections(channelID) ==
    {ErrProcessExists(channelID)} \cup {ErrInputNotFound(path) : path \in VideoPaths \cup {MissingPath}}

\* C29: a Start or StartWithFallback for an id that has a session, or for a
\* source path that does not exist, is rejected, and a rejected call leaves
\* the session table and every process as they were and emits no event.
C29_RejectedStartFrame ==
    [][IsStartCall =>
          /\ lastCall'.id \in DOMAIN processes =>
                wk'[1].err = ErrProcessExists(lastCall'.id)
          /\ wk'[1].err \in Rejections(lastCall'.id) =>
                /\ processes' = processes
                /\ procs' = procs
                /\ emitted' = <<>>
                /\ channels' = channels]_vars

\* a Start has just been rejected for a channel whose session is running
C29_Witness ==
    /\ lastCall.op \in {"Start", "StartWithFallback"}
    /\ wk[1].err = ErrProcessExists(lastCall.id)
    /\ lastCall.id \in DOMAIN processes
    /\ procs[processes[lastCall.id]].alive
    /\ Len(procs) = 1

\* a Start has just been rejected for a source path that does not exist
C29_MissingWitness ==
    /\ lastCall.op \in {"Start", "StartWithFallback"}
    /\ wk[1].err = ErrInputNotFound(MissingPath)
    /\ DOMAIN processes = {}

C30_TableEmpty == wk[2].pc = "stopall_status" => DOMAIN processes = {}

\* the position in a queue of the responses to the client's own requests
OwnResponses(queue) == {i \in DOMAIN queue : queue[i].request > 0}

AtRest ==
    /\ Quiescent
    /\ mon = NoScan
    /\ \A c \in DOMAIN restarts : restarts[c] = 0
    /\ \A p \in DOMAIN procs : procs[p].out = "" /\ (procs[p].alive \/ procs[p].waited)

\* C32: when nothing is in flight, every registered channel whose session
\* is running has status Active.
C32_RunningIsActive ==
    AtRest => \A c \in IDs : SessionRunning(c) => channels[c].Status = StatusActive

\* C33: every live transcoding process is the one the session table holds
\* for its channel: no Stop has deleted the entry of a session that a later
\* Start created.
C33_NoOrphanProcess ==
    \A p \in DOMAIN procs :
        procs[p].alive =>
            /\ procs[p].ch \in DOMAIN processes
            /\ processes[procs[p].ch] = p

\* the output classifier handles a line of process p in this step
Classifies(p) == procs[p].out # "" /\ procs'[p].out = ""

\* C34: a line that the classifier handles for a session for which Stop
\* has been invoked does not move the channel to Error and schedules no
\* restart.
C34_NoErrorAfterStop ==
    [][\A p \in DOMAIN procs :
          (procs[p].stopped /\ Classifies(p)) =>
              /\ restarts' = restarts
              /\ \A c \in IDs :
                    channels'[c].Status = StatusError => channels[c].Status = StatusError]_vars

\* C35: a GetProcessInfo that waits for its nested read lock is not stuck:
\* either the read lock can be granted or the Stop that waits for the write
\* lock can go on.
C35_GetProcessInfoReturns ==
    \A w \in Workers :
        wk[w].pc = "info_isrunning" =>
            \/ ENABLED InfoIsRunning(w)
            \/ \E v \in Workers : ENABLED (NoReader /\ StopFlag(v))
            \/ \E v \in Workers : ENABLED (NoReader /\ StopDelete(v))

\* goroutine w is about to take this mutex
Takes(w, mutex) == Wants(w, mutex, "Lock") \/ Wants(w, mutex, "RLock")

\* C36: a goroutine asks for the supervisor's mutex only while it holds no
\* mutex, and for the registry's or the log mutex only while it holds at
\* most the supervisor's; whenever a goroutine is inside an operation, some
\* goroutine can take its next step.
C36_LockOrder ==
    /\ \A w \in Workers :
          /\ Takes(w, SupervisorMutex) => wk[w].held = {}
          /\ (Takes(w, RegistryMutex) \/ Takes(w, LogMutex)) =>
                \A h \in wk[w].held : h[1] = SupervisorMutex
    /\ (\E w \in Workers : wk[w].pc = "locks") =>
          \E w \in Workers : ENABLED LockStep(w)

\* the monitor loop holds the supervisor's mutex and waits for the
\* registry's, of which the other goroutine holds a read lock
C36_Witness ==
    /\ wk[1].held = {<<SupervisorMutex, "Lock">>}
    /\ Wants(1, RegistryMutex, "Lock")
    /\ ~ENABLED LockStep(1)
    /\ wk[2].held = {<<RegistryMutex, "RLock">>}

\* C37: no goroutine sends on a client's queue after the queue has been
\* closed.
C37_NoSendAfterClose == \A w \in Workers : wk[w].pc # "panic"

\* C38: no play request for an existing channel and an existing file is
\* answered with play_error because a process of the channel is still in
\* the session table.
C38_PlayReplacesSession ==
    \A r \in DOMAIN log :
        log[r].action = "play_error" => \A c \in IDs : log[r].error # ErrProcessExists(c)

====
